---- MODULE Spec2Model ----
(***************************************************************************)
(* The local content-addressed cache of dvc and its synchronisation with   *)
(* a remote cache: status(), _get_plans(), _process() (push / pull) and    *)
(* the per-object transfers _upload / _download of dvc/remote/local.py;    *)
(* and the materializer of the same file: the link strategies copy,        *)
(* symlink, hardlink and reflink, protect and unprotect.                   *)
(***************************************************************************)
EXTENDS Integers, Sequences, FiniteSets, TLC

\* ------------------------------------------------------------------ bounds
\* number of distinct checksums in the universe
NumChecksums == 3
\* number of blocks copyfile streams for one cache object
FileLen == 2
\* largest number of jobs a caller asks for
MaxJobs == 2

Checksums == 1..NumChecksums
Sides == {"local", "remote"}

\* ------------------------------------------------------------- file systems
\* A path either holds no file or a file with a sequence of blocks.  Block 0
\* is a hole (bytes never written).
NoFile == [exists |-> FALSE, data |-> <<>>]
FileOf(d) == [exists |-> TRUE, data |-> d]

\* The content whose digest is checksum c: FileLen blocks, all distinct from
\* the blocks of every other checksum.
Content(c) == [k \in 1..FileLen |-> (c - 1) * FileLen + k]

\* file_md5: the checksum whose content the data is, 0 for any other data.
file_md5(d) ==
    IF \E c \in Checksums : d = Content(c)
    THEN CHOOSE c \in Checksums : d = Content(c)
    ELSE 0

\* The file is the complete object of checksum c.
Complete(f, c) == f.exists /\ file_md5(f.data) = c

\* The paths of one cache root: <<c, 0>> is the cache path of checksum c,
\* <<c, u>> with u > 0 the temporary name next to it that carries uuid u.
Uuids == 1..NumChecksums
Paths == Checksums \X ({0} \cup Uuids)

\* <root>/<c[0:2]>/<c[2:]> of the cache on one side.
checksum_to_path_info(side, c) == [fs |-> side, path |-> <<c, 0>>]

\* to_info + "." + uuid + ".tmp": a name in the destination's directory that
\* no other call draws; u stands for the uuid of the call.
tmp_fname(to_info, u) == <<to_info.path[1], u>>

\* ------------------------------------------------------------ status values
STATUS_OK == "OK"
STATUS_MISSING == "MISSING"
STATUS_NEW == "NEW"
STATUS_DELETED == "DELETED"

\* (local_exists, remote_exists) -> status
STATUS_MAP(in_local, in_remote) ==
    CASE in_local /\ in_remote -> STATUS_OK
      [] ~in_local /\ ~in_remote -> STATUS_MISSING
      [] in_local /\ ~in_remote -> STATUS_NEW
      [] ~in_local /\ in_remote -> STATUS_DELETED

\* remote.JOBS, the concurrency hint of the remote
JOBS == MaxJobs
\* jobs=None of the callers
None == 0 - 1

\* -------------------------------------------------------------- named cache
\* the display name under which checksum c is tracked
FileName(c) == NumChecksums + c

\* named_cache[scheme]: checksum -> set of names, over any set of keys
NamedCaches == { [c \in K |-> {FileName(c)}] : K \in SUBSET Checksums }

\* the elements of a finite set of integers in ascending order
RECURSIVE SortedSeq(_)
SortedSeq(S) ==
    IF S = {} THEN <<>>
    ELSE LET m == CHOOSE x \in S : \A y \in S : x <= y
         IN <<m>> \o SortedSeq(S \ {m})

\* " ".join(names)
JoinNames(names) == SortedSeq(names)

SeqToSet(s) == { s[i] : i \in 1..Len(s) }

VARIABLES
    files,        \* files[side][p]: the file at path p of the cache root
    dirs,         \* dirs[side]: the checksums whose parent directory exists
    pc,           \* "idle", "running", "returned" or "raised"
    call,         \* the arguments of the push / pull in progress, and prev,
                  \* what the call it repeats returned
    files0,       \* the two file systems when push / pull was called
    status_info,  \* the dictionary status() returned
    warning,      \* the (name, md5) pairs of the warning status() logged
    plans,        \* the (from_info, to_info, name) triples of _get_plans
    xfer,         \* xfer[i]: the progress of the transfer of plans[i]
    ret,          \* the value _process returned, None before
    err,          \* the error _process raised
    inodes,       \* inodes[i]: content and mode of inode i of the host
    tree,         \* tree[p]: the directory entry at path p of the host
    linked,       \* linked[d]: the strategy that placed working-tree path d
    op,           \* the materializer operation in progress
    shared,       \* the cache.shared policy: "none" or "group"
    next_uuid,    \* the next uuid a temporary name draws
    snap,         \* inodes and tree when the operation in progress began
    walk,         \* the unprotect of a directory in progress
    cmd,          \* the fetch / pull / push command in progress
    repo,         \* the stages, the workspace and the run in progress
    unpacked,     \* the unpacked directory, its state entry and its update
    log           \* the 'dvc' logger: its level, the records logged, the
                  \* handler the last one is at, and the two streams

enginevars ==
    <<files, dirs, pc, call, files0, status_info, warning, plans, xfer, ret, err>>
linkvars == <<inodes, tree, linked, op, shared, next_uuid, snap, walk>>
sidevars == <<unpacked, log>>
toolvars == <<cmd, repo, sidevars>>
vars == <<enginevars, linkvars, toolvars>>

\* ------------------------------------------------------------- working tree
\* number of working-tree paths a cache object is materialized at
NumDests == 2
\* number of uuids the temporary names of one run draw
MaxTmp == 2

\* the mode of a cache object, 0o444
CACHE_MODE == 292
\* cache.shared -> (file mode, dir mode): (0o644, 0o755) and (0o664, 0o775)
SHARED_MODE_MAP(policy) ==
    IF policy = "group" THEN <<436, 509>> ELSE <<420, 493>>
\* self._file_mode under a policy
_file_mode(policy) == SHARED_MODE_MAP(policy)[1]
Policies == {"none", "group"}

\* the mode open() gives a new file (0o666 less the umask), and the mode a
\* clone gets: that of a new file or, where the clone copies it, the source's
CreateModes == { _file_mode(policy) : policy \in Policies }
CloneModes == CreateModes \cup {CACHE_MODE}

\* the paths of the host: the cache path of the object, the working-tree
\* paths, and the temporary names, one per uuid
Dests == 1..NumDests
CachePath == <<"cache", 0>>
WtPath(d) == <<"wt", d>>
TmpPath(u) == <<"tmp", u>>
LPaths ==
    {CachePath} \cup { WtPath(d) : d \in Dests } \cup { TmpPath(u) : u \in 1..MaxTmp }

\* directory entries: nothing, a name of an inode, or a symbolic link
NoEntry == [kind |-> "none", ino |-> 0, target |-> <<"none", 0>>]
FileEntry(i) == [kind |-> "file", ino |-> i, target |-> <<"none", 0>>]
SymEntry(t) == [kind |-> "symlink", ino |-> 0, target |-> t]

\* inodes: the cache object, one per working-tree path, one per temporary name
Inos == 1..(1 + NumDests + MaxTmp)
NoInode == [live |-> FALSE, data |-> <<>>, mode |-> 0]
Inode(d, m) == [live |-> TRUE, data |-> d, mode |-> m]

\* no operation of the materializer has run
IdleOp ==
    [name |-> "none", pc |-> "idle", to |-> CachePath, tmp |-> CachePath,
     off |-> 0, errno |-> "ok", result |-> "none"]

\* no unprotect of a directory has run
NoWalk ==
    [active |-> FALSE, dir |-> {}, files |-> {}, todo |-> {}, cur |-> 0,
     result |-> "none"]

\* the host while only the transfer engine runs: no working-tree path and no
\* inode is looked at
\* no command was given
NoCmd ==
    [name |-> "none", pc |-> "idle", targets |-> {}, jobs |-> 0, calls |-> 0,
     code |-> None]

\* no run was asked for
NoRun ==
    [kind |-> "none", error |-> "none", ran |-> 0, checkout |-> FALSE,
     outs |-> {}]

\* a repository without stages, workspace and cache
NoRepo ==
    [stages |-> {}, ws |-> <<>>, cache |-> <<>>, cache_type |-> "copy",
     last |-> NoRun]

\* no unpacked directory, no state entry and no update in progress
NoUnpacked ==
    [dir |-> "absent", entries |-> {}, state |-> "none", pc |-> "idle",
     last |-> "none"]

\* the 'dvc' logger before setup(): no record logged, nothing written to the
\* streams
NoLog ==
    [pc |-> "unset", level |-> 0, records |-> <<>>, at |-> 0,
     stdout |-> <<>>, stderr |-> <<>>]

SideIdle == unpacked = NoUnpacked /\ log = NoLog

ToolIdle == cmd = NoCmd /\ repo = NoRepo /\ SideIdle

LinkIdle ==
    /\ ToolIdle
    /\ inodes = [i \in {} |-> NoInode]
    /\ tree = [p \in {} |-> NoEntry]
    /\ linked = [d \in {} |-> "none"]
    /\ op = IdleOp
    /\ shared = "none"
    /\ next_uuid = 1
    /\ snap = [inodes |-> inodes, tree |-> tree]
    /\ walk = NoWalk

\* ------------------------------------------------------------------ status
\* changed_cache_file: the cache file of c is missing or is not the object c
changed_cache_file(fs, c) == ~Complete(fs[<<c, 0>>], c)

\* cache_exists that takes every cache file that exists for unchanged
CacheExistsByStat(fs, checksums) ==
    SelectSeq(checksums, LAMBDA c : fs[<<c, 0>>].exists)

\* cache_exists: the queried checksums whose cache file is unchanged
cache_exists(fs, checksums) ==
    SelectSeq(checksums, LAMBDA c : ~changed_cache_file(fs, c))

\* _fill_statuses with the two presence lists taken for each other
SwappedStatuses(checksum_info_dir, local_exists, remote_exists) ==
    LET local == SeqToSet(local_exists)
        remote == SeqToSet(remote_exists)
    IN [md5 \in DOMAIN checksum_info_dir |->
          [name |-> checksum_info_dir[md5].name,
           status |-> STATUS_MAP(md5 \in remote, md5 \in local)]]

\* _fill_statuses: the status of every record, from the two presence lists
_fill_statuses(checksum_info_dir, local_exists, remote_exists) ==
    LET local == SeqToSet(local_exists)
        remote == SeqToSet(remote_exists)
    IN [md5 \in DOMAIN checksum_info_dir |->
          [name |-> checksum_info_dir[md5].name,
           status |-> STATUS_MAP(md5 \in local, md5 \in remote)]]

\* status() that asks the remote whatever the local cache holds
RemoteAlwaysQueried(local_fs, md5s, download) == <<md5s>>

\* status(), lines 270-278: the calls of remote.cache_exists, each with the
\* checksums it is given: none when a download finds sorted(local_exists)
\* equal to sorted(md5s), else one with md5s
remote_queries(local_fs, md5s, download) ==
    LET local_exists == cache_exists(local_fs, md5s)
    IN IF download /\ SortedSeq(SeqToSet(local_exists)) = SortedSeq(SeqToSet(md5s))
       THEN <<>>
       ELSE <<md5s>>

\* status(), lines 270-278: the remote presence list; it is the local one,
\* and the remote is not asked, when a download finds every named checksum
\* in the local cache
remote_exists_of(local_fs, remote_fs, md5s, download) ==
    LET local_exists == cache_exists(local_fs, md5s)
        queries == remote_queries(local_fs, md5s, download)
    IN IF queries = <<>>
       THEN local_exists
       ELSE cache_exists(remote_fs, queries[1])

\* status() that builds its records from the checksums found in a cache
StatusOfFound(local_fs, remote_fs, named_cache, show_checksums, download) ==
    LET md5s == SortedSeq(DOMAIN named_cache)
        local_exists == cache_exists(local_fs, md5s)
        remote_exists == remote_exists_of(local_fs, remote_fs, md5s, download)
        found == SeqToSet(local_exists) \cup SeqToSet(remote_exists)
        ret0 == [checksum \in found |->
                   [name |-> IF show_checksums THEN <<checksum>>
                             ELSE JoinNames(named_cache[checksum])]]
    IN _fill_statuses(ret0, local_exists, remote_exists)

\* status() of every checksum of the cache, named or not
StatusOfEvery(local_fs, remote_fs, named_cache, show_checksums, download) ==
    LET every == [c \in Checksums |-> {FileName(c)}]
        md5s == SortedSeq(Checksums)
        local_exists == cache_exists(local_fs, md5s)
        remote_exists == remote_exists_of(local_fs, remote_fs, md5s, download)
        ret0 == [checksum \in Checksums |->
                   [name |-> IF show_checksums THEN <<checksum>>
                             ELSE JoinNames(every[checksum])]]
    IN _fill_statuses(ret0, local_exists, remote_exists)

\* status(): one record per key of the named cache
status(local_fs, remote_fs, named_cache, show_checksums, download) ==
    LET md5s == SortedSeq(DOMAIN named_cache)
        local_exists == cache_exists(local_fs, md5s)
        remote_exists == remote_exists_of(local_fs, remote_fs, md5s, download)
        ret0 == [checksum \in DOMAIN named_cache |->
                   [name |-> IF show_checksums THEN <<checksum>>
                             ELSE JoinNames(named_cache[checksum])]]
    IN _fill_statuses(ret0, local_exists, remote_exists)

\* _log_missing_caches that lists every record that is not OK
LogNotOk(checksum_info_dict) ==
    LET md5s == SelectSeq(SortedSeq(DOMAIN checksum_info_dict),
                          LAMBDA md5 : checksum_info_dict[md5].status # STATUS_OK)
    IN [i \in 1..Len(md5s) |->
          [name |-> checksum_info_dict[md5s[i]].name, md5 |-> md5s[i]]]

\* _log_missing_caches: the (name, md5) pairs of the records of status
\* MISSING; the warning is logged when there is one, <<>> stands for no warning
_log_missing_caches(checksum_info_dict) ==
    LET md5s == SelectSeq(SortedSeq(DOMAIN checksum_info_dict),
                          LAMBDA md5 : checksum_info_dict[md5].status = STATUS_MISSING)
    IN [i \in 1..Len(md5s) |->
          [name |-> checksum_info_dict[md5s[i]].name, md5 |-> md5s[i]]]

\* _get_plans whose remote paths are listed in the reverse order
PlansCrossed(download, info, wanted) ==
    LET md5s == SelectSeq(SortedSeq(DOMAIN info),
                          LAMBDA md5 : info[md5].status = wanted)
    IN [i \in 1..Len(md5s) |->
          LET c == checksum_to_path_info("local", md5s[i])
              p == checksum_to_path_info("remote", md5s[Len(md5s) + 1 - i])
          IN [from_info |-> IF download THEN p ELSE c,
              to_info |-> IF download THEN c ELSE p,
              name |-> info[md5s[i]].name]]

\* _get_plans that takes every record, whatever its status
PlansOfAll(download, info, wanted) ==
    LET md5s == SortedSeq(DOMAIN info)
    IN [i \in 1..Len(md5s) |->
          LET c == checksum_to_path_info("local", md5s[i])
              p == checksum_to_path_info("remote", md5s[i])
          IN [from_info |-> IF download THEN p ELSE c,
              to_info |-> IF download THEN c ELSE p,
              name |-> info[md5s[i]].name]]

\* _get_plans: the triples of the records that carry the wanted status
_get_plans(download, info, wanted) ==
    LET md5s == SelectSeq(SortedSeq(DOMAIN info),
                          LAMBDA md5 : info[md5].status = wanted)
    IN [i \in 1..Len(md5s) |->
          LET c == checksum_to_path_info("local", md5s[i])
              p == checksum_to_path_info("remote", md5s[i])
          IN [from_info |-> IF download THEN p ELSE c,
              to_info |-> IF download THEN c ELSE p,
              name |-> info[md5s[i]].name]]

\* -------------------------------------------------------------------- Init
\* A cache root that holds complete objects only, and no temporary file.
CacheStates ==
    { [p \in Paths |-> IF p[2] = 0 /\ p[1] \in P
                       THEN FileOf(Content(p[1])) ELSE NoFile] :
        P \in SUBSET Checksums }

Present(fs) == { c \in Checksums : fs[<<c, 0>>].exists }

NoError == [kind |-> "none", n |-> 0]

Init ==
    /\ files \in [Sides -> CacheStates]
    /\ dirs = [s \in Sides |-> Present(files[s])]
    /\ pc = "idle"
    /\ call = [download |-> FALSE, jobs |-> 1, named_cache |-> <<>>,
               prev |-> None]
    /\ files0 = files
    /\ status_info = <<>>
    /\ plans = <<>>
    /\ xfer = <<>>
    /\ warning = <<>>
    /\ ret = None
    /\ err = NoError
    /\ LinkIdle

\* ---------------------------------------------------------------- _process
Queued == [pc |-> "queued", off |-> 0, res |-> 0, calls |-> 0]

\* _process, lines 336-361: the status, the plan, and the return of 0 for an
\* empty plan.
_process_from(at, named_cache, jobs, show_checksums, download) ==
    LET wanted == IF download THEN STATUS_DELETED ELSE STATUS_NEW
        jobs1 == IF jobs = None THEN JOBS ELSE jobs
        info == status(files["local"], files["remote"], named_cache,
                       show_checksums, download)
        p == _get_plans(download, info, wanted)
    IN /\ pc = at
       /\ call' = [download |-> download, jobs |-> jobs1,
                   named_cache |-> named_cache,
                   prev |-> IF at = "returned" THEN ret ELSE None]
       /\ files0' = files
       /\ status_info' = info
       /\ warning' = _log_missing_caches(info)
       /\ plans' = p
       /\ xfer' = [i \in 1..Len(p) |-> Queued]
       /\ IF Len(p) = 0
          THEN pc' = "returned" /\ ret' = 0
          ELSE pc' = "running" /\ ret' = ret
       /\ UNCHANGED <<files, dirs, err, linkvars, repo, sidevars>>

\* the first push or pull of the process
_process(named_cache, jobs, show_checksums, download) ==
    _process_from("idle", named_cache, jobs, show_checksums, download)

JobsArgs == {None} \cup (1..MaxJobs)

push ==
    /\ \E named_cache \in NamedCaches, jobs \in JobsArgs, show_checksums \in BOOLEAN :
        _process(named_cache, jobs, show_checksums, FALSE)
    /\ UNCHANGED cmd

pull ==
    /\ \E named_cache \in NamedCaches, jobs \in JobsArgs, show_checksums \in BOOLEAN :
        _process(named_cache, jobs, show_checksums, TRUE)
    /\ UNCHANGED cmd

\* ------------------------------------------------------------ the transfers
Plan == 1..Len(plans)

\* the transfers that were started and have not returned
InFlight ==
    { i \in Plan : xfer[i].pc \notin {"queued", "done", "raised", "cancelled"} }

\* max_workers of the pool; map() without a pool runs one call at a time
Workers == IF call.jobs > 1 THEN call.jobs ELSE 1

\* the file a transfer copies from
SourceFile(i) == files[plans[i].from_info.fs][plans[i].from_info.path]

\* the side and the cache path a transfer copies to
DestSide(i) == plans[i].to_info.fs
DestPath(i) == plans[i].to_info.path

\* a write of block b at block offset k of a file
WriteBlock(data, k, b) ==
    [j \in 1..(IF Len(data) > k THEN Len(data) ELSE k) |->
        IF j = k THEN b ELSE IF j <= Len(data) THEN data[j] ELSE 0]

\* a pool without a limit on its workers
TransferStartUnbounded(i) ==
    /\ pc = "running"
    /\ xfer[i].pc = "queued"
    /\ \A j \in Plan : j < i => xfer[j].pc # "queued"
    /\ xfer' = [xfer EXCEPT ![i].pc = "makedirs", ![i].calls = @ + 1]
    /\ UNCHANGED <<files, dirs, pc, call, files0, status_info, warning, plans, ret, err, linkvars, toolvars>>

\* a pool that stops handing out triples once a transfer has returned 1
TransferStartUnlessFailed(i) ==
    /\ pc = "running"
    /\ xfer[i].pc = "queued"
    /\ \A j \in Plan : j < i => xfer[j].pc # "queued"
    /\ \A j \in Plan : xfer[j].res = 0
    /\ Cardinality(InFlight) < Workers
    /\ xfer' = [xfer EXCEPT ![i].pc = "makedirs", ![i].calls = @ + 1]
    /\ UNCHANGED <<files, dirs, pc, call, files0, status_info, warning, plans, ret, err, linkvars, toolvars>>

\* executor.map / map hands the next triple of the plan to func
transfer_start(i) ==
    /\ pc = "running"
    /\ xfer[i].pc = "queued"
    /\ \A j \in Plan : j < i => xfer[j].pc # "queued"
    /\ Cardinality(InFlight) < Workers
    /\ xfer' = [xfer EXCEPT ![i].pc = "makedirs", ![i].calls = @ + 1]
    /\ UNCHANGED <<files, dirs, pc, call, files0, status_info, warning, plans, ret, err, linkvars, toolvars>>

\* copyfile opens (creates or truncates) the file it copies to
copyfile_open(i, to_file) ==
    /\ SourceFile(i).exists
    /\ files' = [files EXCEPT ![DestSide(i)][to_file] = FileOf(<<>>)]
    /\ xfer' = [xfer EXCEPT ![i].pc =
                    IF Len(SourceFile(i).data) = 0 THEN "rename" ELSE "write",
                            ![i].off = 0]

\* copyfile copies the next block of the source
copyfile_write(i, to_file) ==
    LET src == SourceFile(i).data
        k == xfer[i].off + 1
    IN /\ k <= Len(src)
       /\ files' = [files EXCEPT ![DestSide(i)][to_file] =
                        FileOf(WriteBlock(@.data, k, src[k]))]
       /\ xfer' = [xfer EXCEPT ![i].off = k,
                               ![i].pc = IF k = Len(src) THEN "rename" ELSE "write"]

\* os.rename(tmp_file, to_info): the temporary file replaces the destination
rename(i, tmp_file) ==
    /\ files[DestSide(i)][tmp_file].exists
    /\ files' = [files EXCEPT ![DestSide(i)][tmp_file] = NoFile,
                              ![DestSide(i)][DestPath(i)] =
                                    files[DestSide(i)][tmp_file]]

\* ------------------------------------------------------------------ _upload
\* _upload with the copy made at the destination's own name
UploadInPlace(i) == DestPath(i)

\* _upload with a temporary name that carries no uuid
UploadSharedTmp(i) == tmp_fname(plans[i].to_info, 1)

\* _upload, line 233: tmp_file = tmp_fname(to_info)
upload_tmp_file(i) == tmp_fname(plans[i].to_info, i)

\* _upload, line 231: makedirs(to_info.parent, exist_ok=True)
upload_makedirs(i) ==
    /\ pc = "running" /\ ~call.download
    /\ xfer[i].pc = "makedirs"
    /\ dirs' = [dirs EXCEPT !["remote"] = @ \cup {DestPath(i)[1]}]
    /\ xfer' = [xfer EXCEPT ![i].pc = "open"]
    /\ UNCHANGED <<files, pc, call, files0, status_info, warning, plans, ret, err, linkvars, toolvars>>

\* _upload, lines 234-236: copyfile(from_file, tmp_file)
upload_copyfile ==
    \E i \in Plan :
        /\ pc = "running" /\ ~call.download
        /\ \/ xfer[i].pc = "open" /\ copyfile_open(i, upload_tmp_file(i))
           \/ xfer[i].pc = "write" /\ copyfile_write(i, upload_tmp_file(i))
        /\ UNCHANGED <<dirs, pc, call, files0, status_info, warning, plans, ret, err, linkvars, toolvars>>

\* _upload that returns without the rename
UploadNoRename(i) ==
    /\ pc = "running" /\ ~call.download
    /\ xfer[i].pc = "rename"
    /\ xfer' = [xfer EXCEPT ![i].pc = "done", ![i].res = 0]
    /\ UNCHANGED <<files, dirs, pc, call, files0, status_info, warning, plans, ret, err, linkvars, toolvars>>

\* _upload, line 237: os.rename(tmp_file, to_info); upload returns 0
upload_rename(i) ==
    /\ pc = "running" /\ ~call.download
    /\ xfer[i].pc = "rename"
    /\ rename(i, upload_tmp_file(i))
    /\ xfer' = [xfer EXCEPT ![i].pc = "done", ![i].res = 0]
    /\ UNCHANGED <<dirs, pc, call, files0, status_info, warning, plans, ret, err, linkvars, toolvars>>

\* upload: a step of _upload raises; upload logs it and returns 1
upload_except(i) ==
    /\ pc = "running" /\ ~call.download
    /\ xfer[i].pc \in {"makedirs", "open", "write", "rename"}
    /\ xfer' = [xfer EXCEPT ![i].pc = "done", ![i].res = 1]
    /\ UNCHANGED <<files, dirs, pc, call, files0, status_info, warning, plans, ret, err, linkvars, toolvars>>

\* ---------------------------------------------------------------- _download
\* download: tmp_file = tmp_fname(to_info)
download_tmp_file(i) == tmp_fname(plans[i].to_info, i)

\* download: makedirs(to_info.parent, exist_ok=True)
download_makedirs(i) ==
    /\ pc = "running" /\ call.download
    /\ xfer[i].pc = "makedirs"
    /\ dirs' = [dirs EXCEPT !["local"] = @ \cup {DestPath(i)[1]}]
    /\ xfer' = [xfer EXCEPT ![i].pc = "open"]
    /\ UNCHANGED <<files, pc, call, files0, status_info, warning, plans, ret, err, linkvars, toolvars>>

\* _download that copies to the cache path of the object, not to to_file
DownloadInPlace(i, to_file) ==
    /\ pc = "running" /\ call.download
    /\ \/ xfer[i].pc = "open" /\ copyfile_open(i, DestPath(i))
       \/ xfer[i].pc = "write" /\ copyfile_write(i, DestPath(i))
    /\ UNCHANGED <<dirs, pc, call, files0, status_info, warning, plans, ret, err, linkvars, toolvars>>

\* _download: copyfile(from_info, to_file)
_download(i, to_file) ==
    /\ pc = "running" /\ call.download
    /\ \/ xfer[i].pc = "open" /\ copyfile_open(i, to_file)
       \/ xfer[i].pc = "write" /\ copyfile_write(i, to_file)
    /\ UNCHANGED <<dirs, pc, call, files0, status_info, warning, plans, ret, err, linkvars, toolvars>>

\* download: self._download(from_info, tmp_file) inside the try
download_try == \E i \in Plan : _download(i, download_tmp_file(i))

\* download: _download raises; download logs it and returns 1
download_except(i) ==
    /\ pc = "running" /\ call.download
    /\ xfer[i].pc \in {"open", "write"}
    /\ xfer' = [xfer EXCEPT ![i].pc = "done", ![i].res = 1]
    /\ UNCHANGED <<files, dirs, pc, call, files0, status_info, warning, plans, ret, err, linkvars, toolvars>>

\* download: move(tmp_file, to_info); download returns 0
download_move(i) ==
    /\ pc = "running" /\ call.download
    /\ xfer[i].pc = "rename"
    /\ rename(i, download_tmp_file(i))
    /\ xfer' = [xfer EXCEPT ![i].pc = "done", ![i].res = 0]
    /\ UNCHANGED <<dirs, pc, call, files0, status_info, warning, plans, ret, err, linkvars, toolvars>>

\* ------------------------------------------------------- the end of _process
\* sum(map(func, *plans))
RECURSIVE SumRes(_, _)
SumRes(x, n) == IF n = 0 THEN 0 ELSE x[n].res + SumRes(x, n - 1)

\* the end of _process with the two errors taken for each other
ProcessEndSwappedErrors ==
    /\ pc = "running"
    /\ \A i \in Plan : xfer[i].pc = "done"
    /\ LET fails == SumRes(xfer, Len(xfer))
       IN IF fails # 0
          THEN /\ pc' = "raised"
               /\ err' = [kind |-> IF call.download THEN "UploadError"
                                   ELSE "DownloadError",
                          n |-> fails]
               /\ ret' = ret
          ELSE /\ pc' = "returned"
               /\ ret' = Len(plans)
               /\ err' = err
    /\ UNCHANGED <<files, dirs, call, files0, status_info, warning, plans, xfer, linkvars, toolvars>>

\* the end of _process that returns the number of failures
ProcessEndReturnsFails ==
    /\ pc = "running"
    /\ \A i \in Plan : xfer[i].pc = "done"
    /\ LET fails == SumRes(xfer, Len(xfer))
       IN IF fails # 0
          THEN /\ pc' = "raised"
               /\ err' = [kind |-> IF call.download THEN "DownloadError"
                                   ELSE "UploadError",
                          n |-> fails]
               /\ ret' = ret
          ELSE /\ pc' = "returned"
               /\ ret' = fails
               /\ err' = err
    /\ UNCHANGED <<files, dirs, call, files0, status_info, warning, plans, xfer, linkvars, toolvars>>

\* _process that raises as soon as one transfer has returned 1
ProcessEndAtFirstFailure ==
    /\ pc = "running"
    /\ \/ \A i \in Plan : xfer[i].pc = "done"
       \/ \E i \in Plan : xfer[i].pc = "done" /\ xfer[i].res = 1
    /\ LET fails == SumRes(xfer, Len(xfer))
       IN IF fails # 0
          THEN /\ pc' = "raised"
               /\ err' = [kind |-> IF call.download THEN "DownloadError"
                                   ELSE "UploadError",
                          n |-> fails]
               /\ ret' = ret
          ELSE /\ pc' = "returned"
               /\ ret' = Len(plans)
               /\ err' = err
    /\ UNCHANGED <<files, dirs, call, files0, status_info, warning, plans, xfer, linkvars, toolvars>>

\* _process, lines 365-374: the sum of the results, the error or the return
process_end ==
    /\ pc = "running"
    /\ \A i \in Plan : xfer[i].pc = "done"
    /\ LET fails == SumRes(xfer, Len(xfer))
       IN IF fails # 0
          THEN /\ pc' = "raised"
               /\ err' = [kind |-> IF call.download THEN "DownloadError"
                                   ELSE "UploadError",
                          n |-> fails]
               /\ ret' = ret
          ELSE /\ pc' = "returned"
               /\ ret' = Len(plans)
               /\ err' = err
    /\ UNCHANGED <<files, dirs, call, files0, status_info, warning, plans, xfer, linkvars, toolvars>>

Next ==
    \/ push
    \/ pull
    \/ \E i \in Plan : transfer_start(i)
    \/ \E i \in Plan : upload_makedirs(i)
    \/ upload_copyfile
    \/ \E i \in Plan : upload_rename(i)
    \/ \E i \in Plan : upload_except(i)
    \/ \E i \in Plan : download_makedirs(i)
    \/ download_try
    \/ \E i \in Plan : download_except(i)
    \/ \E i \in Plan : download_move(i)
    \/ process_end

Spec == Init /\ [][Next]_vars

\* ------------------------------------------------------ status and the plans
\* one push or pull up to the plans: status(), the warning and _get_plans()
StatusNext ==
    \/ push
    \/ pull

SpecStatus == Init /\ [][StatusNext]_vars

\* ------------------------------------------- a local cache with corrupt objects
\* the object of checksum c with its last block overwritten
Corrupted(c) == [Content(c) EXCEPT ![FileLen] = 0]

\* A local cache root whose cache paths hold nothing, the complete object or
\* a corrupt one.
CorruptStates ==
    { [p \in Paths |-> IF p[2] = 0 /\ p[1] \in P THEN FileOf(Content(p[1]))
                       ELSE IF p[2] = 0 /\ p[1] \in Q THEN FileOf(Corrupted(p[1]))
                       ELSE NoFile] :
        P \in SUBSET Checksums, Q \in SUBSET Checksums }

InitCorrupt ==
    /\ files \in { f \in [Sides -> CorruptStates] : f["remote"] \in CacheStates }
    /\ dirs = [s \in Sides |-> Present(files[s])]
    /\ pc = "idle"
    /\ call = [download |-> FALSE, jobs |-> 1, named_cache |-> <<>>,
               prev |-> None]
    /\ files0 = files
    /\ status_info = <<>>
    /\ plans = <<>>
    /\ xfer = <<>>
    /\ warning = <<>>
    /\ ret = None
    /\ err = NoError
    /\ LinkIdle

SpecCorrupt == InitCorrupt /\ [][StatusNext]_vars

\* ------------------------------------------------- a caller's jobs of any value
\* push and pull of every checksum by a caller that passes jobs itself, 0
\* included
AnyJobs == 0..MaxJobs
AllNamed == [c \in Checksums |-> {FileName(c)}]

push_jobs ==
    /\ \E jobs \in AnyJobs : _process(AllNamed, jobs, FALSE, FALSE)
    /\ UNCHANGED cmd

pull_jobs ==
    /\ \E jobs \in AnyJobs : _process(AllNamed, jobs, FALSE, TRUE)
    /\ UNCHANGED cmd

JobsNext ==
    \/ push_jobs
    \/ pull_jobs
    \/ \E i \in Plan : transfer_start(i)
    \/ \E i \in Plan : upload_makedirs(i)
    \/ upload_copyfile
    \/ \E i \in Plan : upload_rename(i)
    \/ \E i \in Plan : upload_except(i)
    \/ \E i \in Plan : download_makedirs(i)
    \/ download_try
    \/ \E i \in Plan : download_except(i)
    \/ \E i \in Plan : download_move(i)
    \/ process_end

SpecJobs == Init /\ [][JobsNext]_vars

\* ------------------------------------------------- a push or pull repeated
\* the caller repeats at once, with the same arguments, the push that
\* returned
push_again ==
    /\ ~call.download
    /\ _process_from("returned", call.named_cache, call.jobs, FALSE, FALSE)
    /\ UNCHANGED cmd

\* the caller repeats at once, with the same arguments, the pull that
\* returned
pull_again ==
    /\ call.download
    /\ _process_from("returned", call.named_cache, call.jobs, FALSE, TRUE)
    /\ UNCHANGED cmd

AgainNext ==
    \/ push_jobs
    \/ pull_jobs
    \/ push_again
    \/ pull_again
    \/ \E i \in Plan : transfer_start(i)
    \/ \E i \in Plan : upload_makedirs(i)
    \/ upload_copyfile
    \/ \E i \in Plan : upload_rename(i)
    \/ \E i \in Plan : upload_except(i)
    \/ \E i \in Plan : download_makedirs(i)
    \/ download_try
    \/ \E i \in Plan : download_except(i)
    \/ \E i \in Plan : download_move(i)
    \/ process_end

SpecAgain == Init /\ [][AgainNext]_vars

\* ------------------------------------------- a transfer function that raises
\* func raises instead of returning 1: the call ends, its future (or the
\* map() of the main thread) holds the exception
transfer_raise(i) ==
    /\ pc = "running"
    /\ xfer[i].pc = "makedirs"
    /\ xfer' = [xfer EXCEPT ![i].pc = "raised"]
    /\ UNCHANGED <<files, dirs, pc, call, files0, status_info, warning, plans, ret, err, linkvars, toolvars>>

\* the next triple goes to func: a free worker of the pool takes the next
\* queued work item, whatever became of the others; map() without a pool
\* has stopped at the call that raised
map_next(i) ==
    /\ Workers = 1 => \A j \in Plan : xfer[j].pc # "raised"
    /\ transfer_start(i)

\* sum() reaches, in the order of the plan, the result that is an exception:
\* the result iterator of executor.map cancels the futures not yet started
result_raise ==
    /\ pc = "running"
    /\ err = NoError
    /\ \E k \in Plan :
        /\ xfer[k].pc = "raised"
        /\ \A j \in Plan : j < k => xfer[j].pc = "done"
    /\ xfer' = [i \in Plan |->
                  IF xfer[i].pc = "queued" /\ call.jobs > 1
                  THEN [xfer[i] EXCEPT !.pc = "cancelled"]
                  ELSE xfer[i]]
    /\ err' = [kind |-> "fatal", n |-> 0]
    /\ UNCHANGED <<files, dirs, pc, call, files0, status_info, warning, plans, ret, linkvars, toolvars>>

\* the with block is left, shutdown(wait=True) has waited for the running
\* work items: the exception leaves _process
executor_exit ==
    /\ pc = "running"
    /\ err.kind = "fatal"
    /\ InFlight = {}
    /\ pc' = "raised"
    /\ UNCHANGED <<files, dirs, call, files0, status_info, warning, plans, xfer, ret, err, linkvars, toolvars>>

FatalNext ==
    \/ push_jobs
    \/ pull_jobs
    \/ \E i \in Plan : map_next(i)
    \/ \E i \in Plan : transfer_raise(i)
    \/ \E i \in Plan : upload_makedirs(i)
    \/ upload_copyfile
    \/ \E i \in Plan : upload_rename(i)
    \/ \E i \in Plan : upload_except(i)
    \/ \E i \in Plan : download_makedirs(i)
    \/ download_try
    \/ \E i \in Plan : download_except(i)
    \/ \E i \in Plan : download_move(i)
    \/ result_raise
    \/ executor_exit
    \/ process_end

SpecFatal == Init /\ [][FatalNext]_vars

\* ------------------------------------------ the fetch, pull and push commands
\* the command line: the command, the targets and the digits of --jobs
Commands == {"fetch", "pull", "push"}
TargetArgs == {Checksums, {1}}
JobsDigits == { <<n>> : n \in 1..MaxJobs }

\* int() of the digits of an option
RECURSIVE int(_)
int(digits) ==
    IF digits = <<>> THEN 0
    ELSE 10 * int(SubSeq(digits, 1, Len(digits) - 1)) + digits[Len(digits)]

\* the checksums the targets stand for, each under its file name
used_cache(targets) == [c \in targets |-> {FileName(c)}]

\* parse_args: cli_args.func is the command, jobs is an int
parse_args(name, targets, jobs_digits) ==
    /\ pc = "idle"
    /\ cmd.pc = "idle"
    /\ cmd' = [name |-> name, pc |-> "parsed", targets |-> targets,
               jobs |-> int(jobs_digits), calls |-> 0, code |-> None]
    /\ UNCHANGED <<enginevars, linkvars, repo, sidevars>>

\* cmd.run(): self.repo.fetch / pull / push with the parsed options; fetch
\* and pull download, push uploads
cmd_run ==
    /\ cmd.pc = "parsed"
    /\ _process(used_cache(cmd.targets), cmd.jobs, FALSE, cmd.name # "push")
    /\ cmd' = [cmd EXCEPT !.pc = "called", !.calls = @ + 1]

\* cmd.run() that returns 0 whatever the repository operation did
CmdReturnsZero ==
    /\ cmd.pc = "called"
    /\ pc \in {"returned", "raised"}
    /\ cmd' = [cmd EXCEPT !.pc = "exited", !.code = 0]
    /\ UNCHANGED <<enginevars, linkvars, repo, sidevars>>

\* cmd.run(): return 0, or 1 when the repository operation raised
cmd_return ==
    /\ cmd.pc = "called"
    /\ pc \in {"returned", "raised"}
    /\ cmd' = [cmd EXCEPT !.pc = "exited",
                          !.code = IF pc = "raised" THEN 1 ELSE 0]
    /\ UNCHANGED <<enginevars, linkvars, repo, sidevars>>

CmdNext ==
    \/ \E name \in Commands, targets \in TargetArgs, jobs_digits \in JobsDigits :
            parse_args(name, targets, jobs_digits)
    \/ cmd_run
    \/ \E i \in Plan : transfer_start(i)
    \/ \E i \in Plan : upload_makedirs(i)
    \/ upload_copyfile
    \/ \E i \in Plan : upload_rename(i)
    \/ \E i \in Plan : upload_except(i)
    \/ \E i \in Plan : download_makedirs(i)
    \/ download_try
    \/ \E i \in Plan : download_except(i)
    \/ \E i \in Plan : download_move(i)
    \/ process_end
    \/ cmd_return

SpecCmd == Init /\ [][CmdNext]_vars

\* ----------------------------------------------- two creators of one object
\* Two clients found the same checksum NEW and each handed its triple to
\* upload; the remote path is free or already holds the object.  Each call
\* of _upload draws its own uuid.
CreatorsInit ==
    \E c \in Checksums, prev \in BOOLEAN :
        LET with == CHOOSE f \in CacheStates : Present(f) = {c}
            without == CHOOSE f \in CacheStates : Present(f) = {}
            triple == [from_info |-> checksum_to_path_info("local", c),
                       to_info |-> checksum_to_path_info("remote", c),
                       name |-> <<FileName(c)>>]
        IN /\ files = [s \in Sides |->
                         IF s = "local" \/ prev THEN with ELSE without]
           /\ dirs = [s \in Sides |-> Present(files[s])]
           /\ pc = "running"
           /\ call = [download |-> FALSE, jobs |-> JOBS,
                      named_cache |-> [x \in {c} |-> {FileName(c)}],
                      prev |-> None]
           /\ files0 = files
           /\ status_info = [x \in {c} |->
                               [name |-> <<FileName(c)>>, status |-> STATUS_NEW]]
           /\ plans = <<triple, triple>>
           /\ xfer = <<Queued, Queued>>
           /\ warning = <<>>
           /\ ret = None
           /\ err = NoError
           /\ LinkIdle

CreatorsNext ==
    \/ \E i \in Plan : transfer_start(i)
    \/ \E i \in Plan : upload_makedirs(i)
    \/ upload_copyfile
    \/ \E i \in Plan : upload_rename(i)
    \/ \E i \in Plan : upload_except(i)

SpecCreators == CreatorsInit /\ [][CreatorsNext]_vars

\* ------------------------------------------------------------ materializer
\* the transfer engine while only the materializer runs
EngineIdle ==
    /\ files = [s \in Sides |-> CHOOSE f \in CacheStates : Present(f) = {}]
    /\ dirs = [s \in Sides |-> {}]
    /\ pc = "idle"
    /\ call = [download |-> FALSE, jobs |-> 1, named_cache |-> <<>>,
               prev |-> None]
    /\ files0 = files
    /\ status_info = <<>>
    /\ warning = <<>>
    /\ plans = <<>>
    /\ xfer = <<>>
    /\ ret = None
    /\ err = NoError

\* the entry a path leads to: that of its target for a symbolic link
Resolve(t, p) == IF t[p].kind = "symlink" THEN t[t[p].target] ELSE t[p]

\* os.path.exists: the path leads to a file
PathExists(t, p) == Resolve(t, p).kind = "file"

\* st_nlink: the number of names of inode i
Nlink(t, i) == Cardinality({ p \in LPaths : t[p].kind = "file" /\ t[p].ino = i })

\* what a reader that opens p gets: the bytes of the file p leads to
ReadFile(t, n, p) ==
    IF PathExists(t, p) THEN FileOf(n[Resolve(t, p).ino].data) ELSE NoFile

\* stat.S_IMODE(os.stat(p).st_mode)
ModeAt(t, n, p) == n[Resolve(t, p).ino].mode

\* os.path.getsize
getsize(p) == Len(inodes[Resolve(tree, p).ino].data)

\* System.is_symlink and System.is_hardlink (st_nlink > 1)
is_symlink(p) == tree[p].kind = "symlink"
is_hardlink(p) == PathExists(tree, p) /\ Nlink(tree, Resolve(tree, p).ino) > 1

\* the inode a new file gets: one that no name leads to, here the one
\* numbered after the path that creates it (a temporary name is used once, and
\* a file created at a working-tree path is never removed)
FreshIno(p) == IF p[1] = "wt" THEN 1 + p[2] ELSE 1 + NumDests + p[2]

\* the inodes after the name p is removed: an inode without a name is freed
InodesWithout(t, n, p) ==
    IF t[p].kind = "file" /\ Nlink(t, t[p].ino) = 1
    THEN [n EXCEPT ![t[p].ino] = NoInode]
    ELSE n

\* what an operation other than unprotect leaves in snap
NoSnap ==
    [inodes |-> [i \in Inos |-> NoInode], tree |-> [p \in LPaths |-> NoEntry],
     protected |-> FALSE]

\* the operation in progress, and its end
Running(name) == op.name = name /\ op.pc # "idle"
Begin(name, to, tmp_info, at) ==
    [name |-> name, pc |-> at, to |-> to, tmp |-> tmp_info, off |-> 0,
     errno |-> "ok", result |-> "none"]
Finish(result) == [op EXCEPT !.pc = "idle", !.result = result]
Done(name, to, result) == [Begin(name, to, to, "idle") EXCEPT !.result = result]

\* a link is made at a free working-tree path from the cache object
CanLink(d) == op.pc = "idle" /\ tree[WtPath(d)] = NoEntry

\* the first system call of a strategy raises: nothing was created
link_refused(d, strategy) ==
    /\ CanLink(d)
    /\ op' = Done(strategy, WtPath(d), "raised")
    /\ snap' = NoSnap
    /\ UNCHANGED <<enginevars, toolvars, walk, inodes, tree, linked, shared, next_uuid>>

\* os.chmod(tmp_info, self._file_mode)
ChmodTmp == [inodes EXCEPT ![tree[op.tmp].ino].mode = _file_mode(shared)]

\* os.rename(tmp_info, to_info): the name to_info now leads to the inode of
\* the temporary name, which is gone
RenameTmp == [tree EXCEPT ![op.tmp] = NoEntry, ![op.to] = tree[op.tmp]]

\* ---- RemoteLOCAL.copy
\* copy that writes at the destination itself
CopyInPlace(d) ==
    /\ CanLink(d)
    /\ \E m \in CreateModes :
        inodes' = [inodes EXCEPT ![FreshIno(WtPath(d))] = Inode(<<>>, m)]
    /\ tree' = [tree EXCEPT ![WtPath(d)] = FileEntry(FreshIno(WtPath(d)))]
    /\ op' = Begin("copy", WtPath(d), WtPath(d),
                   IF getsize(CachePath) = 0 THEN "chmod" ELSE "write")
    /\ snap' = NoSnap
    /\ UNCHANGED <<enginevars, toolvars, walk, linked, shared, next_uuid>>

\* System.copy creates the temporary file
copy_open(d) ==
    /\ CanLink(d)
    /\ next_uuid <= MaxTmp
    /\ \E m \in CreateModes :
        inodes' = [inodes EXCEPT ![FreshIno(TmpPath(next_uuid))] = Inode(<<>>, m)]
    /\ tree' = [tree EXCEPT ![TmpPath(next_uuid)] = FileEntry(FreshIno(TmpPath(next_uuid)))]
    /\ op' = Begin("copy", WtPath(d), TmpPath(next_uuid),
                   IF getsize(CachePath) = 0 THEN "chmod" ELSE "write")
    /\ next_uuid' = next_uuid + 1
    /\ snap' = NoSnap
    /\ UNCHANGED <<enginevars, toolvars, walk, linked, shared>>

\* System.copy copies the next block
copy_write ==
    LET src == inodes[tree[CachePath].ino].data
        k == op.off + 1
    IN /\ Running("copy") /\ op.pc = "write"
       /\ inodes' = [inodes EXCEPT ![tree[op.tmp].ino].data = Append(@, src[k])]
       /\ op' = [op EXCEPT !.off = k,
                           !.pc = IF k = Len(src) THEN "chmod" ELSE "write"]
       /\ UNCHANGED <<enginevars, toolvars, walk, tree, linked, shared, next_uuid, snap>>

\* copy that leaves the mode of the new file as it was created
CopyNoChmod ==
    /\ Running("copy") /\ op.pc = "chmod"
    /\ op' = [op EXCEPT !.pc = "rename"]
    /\ UNCHANGED <<enginevars, toolvars, walk, inodes, tree, linked, shared, next_uuid, snap>>

\* os.chmod(tmp_info, self._file_mode)
copy_chmod ==
    /\ Running("copy") /\ op.pc = "chmod"
    /\ inodes' = ChmodTmp
    /\ op' = [op EXCEPT !.pc = "rename"]
    /\ UNCHANGED <<enginevars, toolvars, walk, tree, linked, shared, next_uuid, snap>>

\* os.rename(tmp_info, to_info)
copy_rename ==
    /\ Running("copy") /\ op.pc = "rename"
    /\ tree' = RenameTmp
    /\ linked' = [linked EXCEPT ![op.to[2]] = "copy"]
    /\ op' = Finish("returned")
    /\ UNCHANGED <<enginevars, toolvars, walk, inodes, shared, next_uuid, snap>>

\* except Exception: self.remove(tmp_info); raise
copy_except ==
    /\ Running("copy")
    /\ inodes' = InodesWithout(tree, inodes, op.tmp)
    /\ tree' = [tree EXCEPT ![op.tmp] = NoEntry]
    /\ op' = Finish("raised")
    /\ UNCHANGED <<enginevars, toolvars, walk, linked, shared, next_uuid, snap>>

\* ---- RemoteLOCAL.symlink
\* System.symlink(from_info, to_info)
symlink(d) ==
    /\ CanLink(d)
    /\ tree' = [tree EXCEPT ![WtPath(d)] = SymEntry(CachePath)]
    /\ linked' = [linked EXCEPT ![d] = "symlink"]
    /\ op' = Done("symlink", WtPath(d), "returned")
    /\ snap' = NoSnap
    /\ UNCHANGED <<enginevars, toolvars, walk, inodes, shared, next_uuid>>

\* ---- RemoteLOCAL.hardlink
\* hardlink that links an empty source like any other
HardlinkAlways(d) ==
    /\ CanLink(d)
    /\ tree' = [tree EXCEPT ![WtPath(d)] = FileEntry(tree[CachePath].ino)]
    /\ inodes' = inodes
    /\ linked' = [linked EXCEPT ![d] = "hardlink"]
    /\ op' = Done("hardlink", WtPath(d), "returned")
    /\ snap' = NoSnap
    /\ UNCHANGED <<enginevars, toolvars, walk, shared, next_uuid>>

\* an empty source: self.open(to_info, "w").close(); any other source:
\* System.hardlink(from_info, to_info)
hardlink(d) ==
    /\ CanLink(d)
    /\ IF getsize(CachePath) = 0
       THEN /\ \E m \in CreateModes :
                inodes' = [inodes EXCEPT ![FreshIno(WtPath(d))] = Inode(<<>>, m)]
            /\ tree' = [tree EXCEPT ![WtPath(d)] = FileEntry(FreshIno(WtPath(d)))]
       ELSE /\ tree' = [tree EXCEPT ![WtPath(d)] = FileEntry(tree[CachePath].ino)]
            /\ inodes' = inodes
    /\ linked' = [linked EXCEPT ![d] = "hardlink"]
    /\ op' = Done("hardlink", WtPath(d), "returned")
    /\ snap' = NoSnap
    /\ UNCHANGED <<enginevars, toolvars, walk, shared, next_uuid>>

\* ---- RemoteLOCAL.reflink
\* System.reflink(from_info, tmp_info): a clone with an inode of its own
reflink_clone(d) ==
    /\ CanLink(d)
    /\ next_uuid <= MaxTmp
    /\ \E m \in CloneModes :
        inodes' = [inodes EXCEPT ![FreshIno(TmpPath(next_uuid))] =
                        Inode(inodes[tree[CachePath].ino].data, m)]
    /\ tree' = [tree EXCEPT ![TmpPath(next_uuid)] = FileEntry(FreshIno(TmpPath(next_uuid)))]
    /\ op' = Begin("reflink", WtPath(d), TmpPath(next_uuid), "chmod")
    /\ next_uuid' = next_uuid + 1
    /\ snap' = NoSnap
    /\ UNCHANGED <<enginevars, toolvars, walk, linked, shared>>

\* reflink that leaves the mode of the clone as it was created
ReflinkNoChmod ==
    /\ Running("reflink") /\ op.pc = "chmod"
    /\ op' = [op EXCEPT !.pc = "rename"]
    /\ UNCHANGED <<enginevars, toolvars, walk, inodes, tree, linked, shared, next_uuid, snap>>

\* os.chmod(tmp_info, self._file_mode)
reflink_chmod ==
    /\ Running("reflink") /\ op.pc = "chmod"
    /\ inodes' = ChmodTmp
    /\ op' = [op EXCEPT !.pc = "rename"]
    /\ UNCHANGED <<enginevars, toolvars, walk, tree, linked, shared, next_uuid, snap>>

\* os.rename(tmp_info, to_info)
reflink_rename ==
    /\ Running("reflink") /\ op.pc = "rename"
    /\ tree' = RenameTmp
    /\ linked' = [linked EXCEPT ![op.to[2]] = "reflink"]
    /\ op' = Finish("returned")
    /\ UNCHANGED <<enginevars, toolvars, walk, inodes, shared, next_uuid, snap>>

\* os.chmod or os.rename raises: reflink has no handler
reflink_raise ==
    /\ Running("reflink")
    /\ op' = Finish("raised")
    /\ UNCHANGED <<enginevars, toolvars, walk, inodes, tree, linked, shared, next_uuid, snap>>

\* ---- RemoteLOCAL.protect
Errnos == {"ok", "EROFS", "EPERM", "EACCES", "EIO"}
Protectable == { p \in {CachePath} \cup { WtPath(d) : d \in Dests } : PathExists(tree, p) }

\* protect that takes a refused chmod for a protected file
ProtectTolerant(p) ==
    /\ op.pc = "idle"
    /\ p \in Protectable
    /\ \E e \in Errnos :
        LET i == Resolve(tree, p).ino
        IN /\ inodes' = IF e = "ok" THEN [inodes EXCEPT ![i].mode = CACHE_MODE]
                        ELSE inodes
           /\ op' = [Done("protect", p,
                          IF e \in {"ok", "EROFS", "EPERM", "EACCES"}
                          THEN "returned" ELSE "raised")
                     EXCEPT !.errno = e]
    /\ snap' = NoSnap
    /\ UNCHANGED <<enginevars, toolvars, walk, tree, linked, shared, next_uuid>>

\* os.chmod(path, CACHE_MODE); EROFS: return; an errno other than EPERM and
\* EACCES: raise; actual != mode: raise
protect(p) ==
    /\ op.pc = "idle"
    /\ p \in Protectable
    /\ \E e \in Errnos :
        LET i == Resolve(tree, p).ino
            actual == inodes[i].mode
        IN /\ inodes' = IF e = "ok" THEN [inodes EXCEPT ![i].mode = CACHE_MODE]
                        ELSE inodes
           /\ op' = [Done("protect", p,
                          IF \/ e \in {"ok", "EROFS"}
                             \/ e \in {"EPERM", "EACCES"} /\ actual = CACHE_MODE
                          THEN "returned" ELSE "raised")
                     EXCEPT !.errno = e]
    /\ snap' = NoSnap
    /\ UNCHANGED <<enginevars, toolvars, walk, tree, linked, shared, next_uuid>>

\* ---- RemoteLOCAL.unprotect, RemoteLOCAL._unprotect_file
\* the call before this one was a protect of p whose chmod took effect or
\* found the mode in place
JustProtected(p) ==
    /\ op.name = "protect" /\ op.pc = "idle" /\ op.to = p
    /\ op.result = "returned" /\ op.errno # "EROFS"

\* if not os.path.exists(path): raise DvcException
unprotect_missing(d) ==
    /\ op.pc = "idle"
    /\ ~PathExists(tree, WtPath(d))
    /\ op' = Done("unprotect", WtPath(d), "raised")
    /\ snap' = [inodes |-> inodes, tree |-> tree,
                protected |-> JustProtected(WtPath(d))]
    /\ UNCHANGED <<enginevars, toolvars, walk, inodes, tree, linked, shared, next_uuid>>

\* unprotect that only changes the mode of what the path leads to
UnprotectChmodOnly(d) ==
    /\ op.pc = "idle"
    /\ PathExists(tree, WtPath(d))
    /\ op' = Begin("unprotect", WtPath(d), WtPath(d), "chmod")
    /\ snap' = [inodes |-> inodes, tree |-> tree,
                protected |-> JustProtected(WtPath(d))]
    /\ UNCHANGED <<enginevars, toolvars, walk, inodes, tree, linked, shared, next_uuid>>

\* a symlink or a hardlink: copyfile(path, tmp) creates the temporary file;
\* any other file: only the chmod is left to do
unprotect_begin(d) ==
    /\ op.pc = "idle"
    /\ PathExists(tree, WtPath(d))
    /\ IF is_symlink(WtPath(d)) \/ is_hardlink(WtPath(d))
       THEN /\ next_uuid <= MaxTmp
            /\ \E m \in CreateModes :
                inodes' = [inodes EXCEPT ![FreshIno(TmpPath(next_uuid))] = Inode(<<>>, m)]
            /\ tree' = [tree EXCEPT ![TmpPath(next_uuid)] =
                            FileEntry(FreshIno(TmpPath(next_uuid)))]
            /\ op' = Begin("unprotect", WtPath(d), TmpPath(next_uuid),
                           IF getsize(WtPath(d)) = 0 THEN "remove" ELSE "write")
            /\ next_uuid' = next_uuid + 1
       ELSE /\ op' = Begin("unprotect", WtPath(d), WtPath(d), "chmod")
            /\ UNCHANGED <<inodes, tree, next_uuid>>
    /\ snap' = [inodes |-> inodes, tree |-> tree,
                protected |-> JustProtected(WtPath(d))]
    /\ UNCHANGED <<enginevars, toolvars, walk, linked, shared>>

\* copyfile that stops after the first block
UnprotectCopiesOneBlock ==
    LET src == ReadFile(tree, inodes, op.to).data
        k == op.off + 1
    IN /\ Running("unprotect") /\ op.pc = "write"
       /\ inodes' = [inodes EXCEPT ![tree[op.tmp].ino].data = Append(@, src[k])]
       /\ op' = [op EXCEPT !.off = k, !.pc = "remove"]
       /\ UNCHANGED <<enginevars, toolvars, walk, tree, linked, shared, next_uuid, snap>>

\* copyfile copies the next block
unprotect_write ==
    LET src == ReadFile(tree, inodes, op.to).data
        k == op.off + 1
    IN /\ Running("unprotect") /\ op.pc = "write"
       /\ inodes' = [inodes EXCEPT ![tree[op.tmp].ino].data = Append(@, src[k])]
       /\ op' = [op EXCEPT !.off = k,
                           !.pc = IF k = Len(src) THEN "remove" ELSE "write"]
       /\ UNCHANGED <<enginevars, toolvars, walk, tree, linked, shared, next_uuid, snap>>

\* remove(path)
unprotect_remove ==
    /\ Running("unprotect") /\ op.pc = "remove"
    /\ inodes' = InodesWithout(tree, inodes, op.to)
    /\ tree' = [tree EXCEPT ![op.to] = NoEntry]
    /\ linked' = [linked EXCEPT ![op.to[2]] = "none"]
    /\ op' = [op EXCEPT !.pc = "rename"]
    /\ UNCHANGED <<enginevars, toolvars, walk, shared, next_uuid, snap>>

\* os.rename(tmp, path)
unprotect_rename ==
    /\ Running("unprotect") /\ op.pc = "rename"
    /\ tree' = RenameTmp
    /\ linked' = [linked EXCEPT ![op.to[2]] = "unprotect"]
    /\ op' = [op EXCEPT !.pc = "chmod"]
    /\ UNCHANGED <<enginevars, toolvars, walk, inodes, shared, next_uuid, snap>>

\* os.chmod(path, self._file_mode)
unprotect_chmod ==
    /\ Running("unprotect") /\ op.pc = "chmod"
    /\ inodes' = [inodes EXCEPT ![Resolve(tree, op.to).ino].mode = _file_mode(shared)]
    /\ op' = Finish("returned")
    /\ UNCHANGED <<enginevars, toolvars, walk, tree, linked, shared, next_uuid, snap>>

\* a system call of _unprotect_file raises: there is no handler
unprotect_raise ==
    /\ Running("unprotect")
    /\ op' = Finish("raised")
    /\ UNCHANGED <<enginevars, toolvars, walk, inodes, tree, linked, shared, next_uuid, snap>>

\* ---- the materializer on one cache object
Strategies == {"reflink", "hardlink", "symlink", "copy"}
SourceData == {<<>>, Content(1)}

LinkInit ==
    /\ EngineIdle
    /\ ToolIdle
    /\ \E d \in SourceData :
        inodes = [i \in Inos |-> IF i = 1 THEN Inode(d, CACHE_MODE) ELSE NoInode]
    /\ tree = [p \in LPaths |-> IF p = CachePath THEN FileEntry(1) ELSE NoEntry]
    /\ linked = [d \in Dests |-> "none"]
    /\ op = IdleOp
    /\ shared \in Policies
    /\ next_uuid = 1
    /\ snap = NoSnap
    /\ walk = NoWalk

LinkNext ==
    \/ \E d \in Dests, strategy \in Strategies : link_refused(d, strategy)
    \/ \E d \in Dests : copy_open(d)
    \/ copy_write
    \/ copy_chmod
    \/ copy_rename
    \/ copy_except
    \/ \E d \in Dests : symlink(d)
    \/ \E d \in Dests : hardlink(d)
    \/ \E d \in Dests : reflink_clone(d)
    \/ reflink_chmod
    \/ reflink_rename
    \/ reflink_raise

SpecLink == LinkInit /\ [][LinkNext]_vars

\* ---- protection of materialized files: every strategy runs to its end
ProtectNext ==
    \/ \E d \in Dests : copy_open(d)
    \/ copy_write
    \/ copy_chmod
    \/ copy_rename
    \/ \E d \in Dests : symlink(d)
    \/ \E d \in Dests : hardlink(d)
    \/ \E d \in Dests : reflink_clone(d)
    \/ reflink_chmod
    \/ reflink_rename
    \/ \E p \in LPaths : protect(p)
    \/ \E d \in Dests : unprotect_begin(d)
    \/ unprotect_write
    \/ unprotect_remove
    \/ unprotect_rename
    \/ unprotect_chmod

SpecProtect == LinkInit /\ [][ProtectNext]_vars

\* ---- RemoteLOCAL.unprotect of a directory, RemoteLOCAL._unprotect_dir
\* The directory is the set D of working-tree paths below it, at any depth;
\* walk_files yields those that hold a file.
walk_files(D) == { d \in D : tree[WtPath(d)] # NoEntry }

\* the file the walk is at was unprotected, or the walk is at its start
WalkCanGoOn ==
    /\ walk.active
    /\ op.pc = "idle"
    /\ walk.cur = 0 \/ op.result = "returned"

\* os.path.isdir(path): self._unprotect_dir(path)
unprotect_dir(D) ==
    /\ op.pc = "idle"
    /\ walk = NoWalk
    /\ walk' = [active |-> TRUE, dir |-> D, files |-> walk_files(D),
                todo |-> walk_files(D), cur |-> 0, result |-> "none"]
    /\ op' = IdleOp
    /\ snap' = NoSnap
    /\ UNCHANGED <<enginevars, toolvars, inodes, tree, linked, shared, next_uuid>>

\* for fname in self.repo.tree.walk_files(path)
walk_files_next ==
    /\ WalkCanGoOn
    /\ \E d \in walk.todo :
        /\ \A e \in walk.todo : d <= e
        /\ walk' = [walk EXCEPT !.cur = d, !.todo = @ \ {d}]
    /\ op' = IdleOp
    /\ snap' = NoSnap
    /\ UNCHANGED <<enginevars, toolvars, inodes, tree, linked, shared, next_uuid>>

\* self._unprotect_file(fname)
unprotect_dir_file ==
    /\ walk.active
    /\ walk.cur # 0
    /\ op = IdleOp
    /\ unprotect_begin(walk.cur)

\* _unprotect_dir that returns after the first file
UnprotectDirReturnsEarly ==
    /\ WalkCanGoOn
    /\ walk.cur # 0
    /\ walk' = [walk EXCEPT !.active = FALSE, !.result = "returned"]
    /\ UNCHANGED <<enginevars, toolvars, inodes, tree, linked, op, shared, next_uuid, snap>>

\* walk_files is exhausted: _unprotect_dir and unprotect return
unprotect_dir_return ==
    /\ WalkCanGoOn
    /\ walk.todo = {}
    /\ walk' = [walk EXCEPT !.active = FALSE, !.result = "returned"]
    /\ UNCHANGED <<enginevars, toolvars, inodes, tree, linked, op, shared, next_uuid, snap>>

\* _unprotect_file raised: the error leaves _unprotect_dir and unprotect
unprotect_dir_raise ==
    /\ walk.active
    /\ op.pc = "idle"
    /\ op.result = "raised"
    /\ walk' = [walk EXCEPT !.active = FALSE, !.result = "raised"]
    /\ UNCHANGED <<enginevars, toolvars, inodes, tree, linked, op, shared, next_uuid, snap>>

\* the working tree is filled by symlink, hardlink and copy, then one
\* directory of it is unprotected
DirNext ==
    \/ \E d \in Dests : walk = NoWalk /\ copy_open(d)
    \/ copy_write
    \/ copy_chmod
    \/ copy_rename
    \/ \E d \in Dests : walk = NoWalk /\ symlink(d)
    \/ \E d \in Dests : walk = NoWalk /\ hardlink(d)
    \/ \E D \in SUBSET Dests : unprotect_dir(D)
    \/ walk_files_next
    \/ unprotect_dir_file
    \/ unprotect_write
    \/ unprotect_remove
    \/ unprotect_rename
    \/ unprotect_chmod
    \/ unprotect_raise
    \/ unprotect_dir_return
    \/ unprotect_dir_raise

SpecDir == LinkInit /\ [][DirNext]_vars

\* ---- RemoteLOCAL._verify_link
\* System.hardlink on a file system that gives the destination an inode of
\* its own: the call returns, the destination holds the bytes, no link exists
hardlink_unshared(d) ==
    /\ CanLink(d)
    /\ getsize(CachePath) # 0
    /\ \E m \in CloneModes :
        inodes' = [inodes EXCEPT ![FreshIno(WtPath(d))] =
                        Inode(inodes[tree[CachePath].ino].data, m)]
    /\ tree' = [tree EXCEPT ![WtPath(d)] = FileEntry(FreshIno(WtPath(d)))]
    /\ linked' = [linked EXCEPT ![d] = "hardlink"]
    /\ op' = Done("hardlink", WtPath(d), "returned")
    /\ snap' = NoSnap
    /\ UNCHANGED <<enginevars, toolvars, walk, shared, next_uuid>>

\* a link of type hardlink or symlink was made and is not yet verified
VerifyDue == op.pc = "idle" /\ op.name \in {"hardlink", "symlink"} /\ op.result = "returned"

\* the verification of the last link failed
VerifyFailed == op.pc = "idle" /\ op.name = "verify" /\ op.result = "raised"

\* the base class: is_<link_type>(path_info), else remove and raise
super_verify_link(p, link_type) ==
    IF (link_type = "hardlink" /\ is_hardlink(p)) \/ (link_type = "symlink" /\ is_symlink(p))
    THEN /\ op' = Done("verify", p, "returned")
         /\ UNCHANGED <<inodes, tree, linked>>
    ELSE /\ inodes' = InodesWithout(tree, inodes, p)
         /\ tree' = [tree EXCEPT ![p] = NoEntry]
         /\ linked' = [linked EXCEPT ![p[2]] = "none"]
         /\ op' = Done("verify", p, "raised")

\* _verify_link without the exemption of empty files
VerifyLinkAlways(p, link_type) ==
    /\ VerifyDue /\ op.to = p /\ op.name = link_type
    /\ super_verify_link(p, link_type)
    /\ snap' = NoSnap
    /\ UNCHANGED <<enginevars, toolvars, walk, shared, next_uuid>>

\* _verify_link, lines 96-100
_verify_link(p, link_type) ==
    /\ VerifyDue /\ op.to = p /\ op.name = link_type
    /\ IF link_type = "hardlink" /\ getsize(p) = 0
       THEN /\ op' = Done("verify", p, "returned")
            /\ UNCHANGED <<inodes, tree, linked>>
       ELSE super_verify_link(p, link_type)
    /\ snap' = NoSnap
    /\ UNCHANGED <<enginevars, toolvars, walk, shared, next_uuid>>

\* a link is tried, verified, and after a failed verification the next
\* strategy, copy, is tried at the same path
VerifyNext ==
    \/ \E d \in Dests : ~VerifyDue /\ ~VerifyFailed /\ hardlink(d)
    \/ \E d \in Dests : ~VerifyDue /\ ~VerifyFailed /\ hardlink_unshared(d)
    \/ \E d \in Dests : ~VerifyDue /\ ~VerifyFailed /\ symlink(d)
    \/ \E d \in Dests, link_type \in {"hardlink", "symlink"} :
            _verify_link(WtPath(d), link_type)
    \/ \E d \in Dests : VerifyFailed /\ op.to = WtPath(d) /\ copy_open(d)
    \/ copy_write
    \/ copy_chmod
    \/ copy_rename

SpecVerify == LinkInit /\ [][VerifyNext]_vars

\* ------------------------------------------------------ Repo.run, Stage.run
\* number of data files of the workspace: foo, bar, baz
NumFiles == 3
\* largest number of stages the repository records
MaxStages == 2

\* The paths of the workspace: the data files 1..NumFiles (FOO is 1), the
\* directory DATA_DIR, the file DATA inside it, and a path that ends in .dvc.
FOO == 1
DATA_DIR == NumFiles + 1
DATA == NumFiles + 2
STAGE_FILE == NumFiles + 3
RunPaths == 1..(NumFiles + 3)

\* a path as the command line gives it: "foo" or, for FOO, "./foo"
ArgPaths == (RunPaths \X {"plain"}) \cup {<<FOO, "dot">>}
normpath(arg) == arg[1]

\* one path is the other or lies below it
overlaps(p, q) == {p, q} = {DATA_DIR, DATA}

\* the outputs of the stages of the repository
Outs(stages) == UNION { st.outs : st \in stages }

\* the stage that produces path p or a directory p lies in
Producers(stages, p) ==
    { st \in stages : \E o \in st.outs : o = p \/ (o = DATA_DIR /\ p = DATA) }

\* the stages a stage depends on
Parents(stages, st) == UNION { Producers(stages, d) : d \in st.deps }

\* the stages reached from the set S along dependencies, S included
RECURSIVE Ancestors(_, _)
Ancestors(stages, S) ==
    LET more == S \cup UNION { Parents(stages, st) : st \in S }
    IN IF more = S THEN S ELSE Ancestors(stages, more)

\* the graph check that looks one dependency deep
DirectCycleOnly(stages, new) ==
    new \in Parents(stages \cup {new}, new)

\* check_modified_graph: the new stage is reached from one of its parents
has_cycle(stages, new) ==
    LET all == stages \cup {new}
    IN new \in Ancestors(all, Parents(all, new))

\* the first error of the checks run makes before the command
run_error(deps, outs, fname) ==
    LET O == SeqToSet(outs)
        new == [deps |-> deps, outs |-> O]
    IN IF STAGE_FILE \in O THEN "OutputIsStageFileError"
       ELSE IF STAGE_FILE \in deps THEN "DependencyIsStageFileError"
       ELSE IF deps \cap O # {} THEN "CircularDependencyError"
       ELSE IF Cardinality(O) # Len(outs) THEN "ArgumentDuplicationError"
       ELSE IF fname = "out_stage" THEN "StageFileBadNameError"
       ELSE IF fname = "inside" /\ DATA_DIR \in Outs(repo.stages)
            THEN "StagePathAsOutputError"
       ELSE IF O \cap Outs(repo.stages) # {} THEN "OutputDuplicationError"
       ELSE IF \E o \in O, q \in (Outs(repo.stages) \cup O) : overlaps(o, q)
            THEN "OverlappingOutputPathsError"
       ELSE IF has_cycle(repo.stages, new) THEN "CyclicGraphError"
       ELSE IF \E d \in deps : repo.ws[d] = "none" THEN "MissingDep"
       ELSE "none"

\* the cache object of the checksum recorded for an output and the output
\* are one inode under cache.type hardlink
SameInode(p) == repo.cache_type = "hardlink" /\ repo.cache[p] # "none"

\* Repo.run that runs the command and makes the checks afterwards
RunCommandFirst(dep_args, outs, fname) ==
    LET deps == { normpath(a) : a \in dep_args }
        O == SeqToSet(outs)
        error == run_error(deps, outs, fname)
    IN /\ pc = "idle" /\ cmd.pc = "idle"
       /\ error = "none" => Cardinality(repo.stages) < MaxStages
       /\ repo' =
            IF error # "none"
            THEN [repo EXCEPT
                    !.ws = [p \in RunPaths |-> IF p \in O THEN "good" ELSE @[p]],
                    !.last = [kind |-> "run", error |-> error,
                              ran |-> 1, checkout |-> FALSE, outs |-> {}]]
            ELSE [repo EXCEPT
                    !.stages = @ \cup {[deps |-> deps, outs |-> O]},
                    !.ws = [p \in RunPaths |-> IF p \in O THEN "good" ELSE @[p]],
                    !.cache = [p \in RunPaths |-> IF p \in O THEN "good" ELSE @[p]],
                    !.last = [kind |-> "run", error |-> "none",
                              ran |-> 1, checkout |-> FALSE, outs |-> {}]]
       /\ UNCHANGED <<enginevars, linkvars, cmd, sidevars>>

\* Repo.run: the checks, then the command, the commit of the outputs to the
\* cache and the dump of the stage file
run(dep_args, outs, fname) ==
    LET deps == { normpath(a) : a \in dep_args }
        O == SeqToSet(outs)
        error == run_error(deps, outs, fname)
    IN /\ pc = "idle" /\ cmd.pc = "idle"
       /\ error = "none" => Cardinality(repo.stages) < MaxStages
       /\ repo' =
            IF error # "none"
            THEN [repo EXCEPT !.last = [kind |-> "run", error |-> error,
                                        ran |-> 0, checkout |-> FALSE,
                                        outs |-> {}]]
            ELSE [repo EXCEPT
                    !.stages = @ \cup {[deps |-> deps, outs |-> O]},
                    !.ws = [p \in RunPaths |-> IF p \in O THEN "good" ELSE @[p]],
                    !.cache = [p \in RunPaths |-> IF p \in O THEN "good" ELSE @[p]],
                    !.last = [kind |-> "run", error |-> "none",
                              ran |-> 1, checkout |-> FALSE, outs |-> {}]]
       /\ UNCHANGED <<enginevars, linkvars, cmd, sidevars>>

\* os.chmod(BAR, 0o644) and a write of other bytes to an output
overwrite(p) ==
    /\ pc = "idle" /\ cmd.pc = "idle"
    /\ p \in Outs(repo.stages)
    /\ repo.ws[p] = "good"
    /\ repo' = [repo EXCEPT !.ws[p] = "bad",
                            !.cache[p] = IF SameInode(p) THEN "bad" ELSE @,
                            !.last = [kind |-> "overwrite", error |-> "none",
                                      ran |-> 0, checkout |-> FALSE,
                                      outs |-> {}]]
    /\ UNCHANGED <<enginevars, linkvars, cmd, sidevars>>

\* get_checksum(path_info): the checksum of what the path holds now
get_checksum(p) ==
    IF repo.ws[p] = "none" THEN "none"
    ELSE IF repo.ws[p] = "good" THEN "recorded" ELSE "other"

\* changed_cache(md5): the cache holds no intact object of that checksum
changed_cache(p, md5) == ~(md5 = "recorded" /\ repo.cache[p] = "good")

\* already_cached that asks for the checksum the stage file records
AlreadyCachedRecorded(p) == ~changed_cache(p, "recorded")

\* RemoteLOCAL.already_cached
already_cached(p) ==
    LET current_md5 == get_checksum(p)
    IN IF current_md5 = "none" THEN FALSE
       ELSE ~changed_cache(p, current_md5)

\* Stage.run of a recorded stage: checkout when every output is already
\* cached, else the command, and then the commit of the outputs
stage_run(st) ==
    /\ pc = "idle" /\ cmd.pc = "idle"
    /\ st \in repo.stages
    /\ IF \A p \in st.outs : already_cached(p)
       THEN repo' = [repo EXCEPT
                !.ws = [p \in RunPaths |-> IF p \in st.outs THEN "good" ELSE @[p]],
                !.last = [kind |-> "rerun", error |-> "none",
                          ran |-> 0, checkout |-> TRUE, outs |-> st.outs]]
       ELSE repo' = [repo EXCEPT
                !.ws = [p \in RunPaths |-> IF p \in st.outs THEN "good" ELSE @[p]],
                !.cache = [p \in RunPaths |-> IF p \in st.outs THEN "good" ELSE @[p]],
                !.last = [kind |-> "rerun", error |-> "none",
                          ran |-> 1, checkout |-> FALSE, outs |-> st.outs]]
    /\ UNCHANGED <<enginevars, linkvars, cmd, sidevars>>

\* the workspace of the tests: foo and the data directory exist
RunInit(cache_types) ==
    /\ EngineIdle
    /\ inodes = [i \in {} |-> NoInode]
    /\ tree = [p \in {} |-> NoEntry]
    /\ linked = [d \in {} |-> "none"]
    /\ op = IdleOp
    /\ shared = "none"
    /\ next_uuid = 1
    /\ snap = [inodes |-> inodes, tree |-> tree]
    /\ walk = NoWalk
    /\ cmd = NoCmd
    /\ SideIdle
    /\ \E cache_type \in cache_types :
        repo = [stages |-> {},
                ws |-> [p \in RunPaths |->
                          IF p \in {FOO, DATA_DIR, DATA} THEN "good" ELSE "none"],
                cache |-> [p \in RunPaths |-> "none"],
                cache_type |-> cache_type,
                last |-> NoRun]

\* the arguments of run: at most one dependency, one output or the same
\* output twice, and the three kinds of stage file name
DepArgs == { A \in SUBSET ArgPaths : Cardinality(A) <= 1 }
OutArgs == { <<p>> : p \in RunPaths } \cup { <<p, p>> : p \in RunPaths }
Fnames == {"default", "out_stage", "inside"}

RunNext ==
    \E dep_args \in DepArgs, outs \in OutArgs, fname \in Fnames :
        run(dep_args, outs, fname)

SpecRun == RunInit({"copy"}) /\ [][RunNext]_vars

\* stages of one data file each, their outputs overwritten and the stages
\* run again
run_file ==
    \E d \in 1..NumFiles, o \in 1..NumFiles :
        run({<<d, "plain">>}, <<o>>, "default")

RerunNext ==
    \/ run_file
    \/ \E p \in RunPaths : overwrite(p)
    \/ \E st \in repo.stages : stage_run(st)

SpecRerun == RunInit({"copy", "hardlink"}) /\ [][RerunNext]_vars

\* ------------------------------------------ RemoteLOCAL._update_unpacked_dir
\* number of entries of the manifest of the directory checksum
NumEntries == 3
\* the relative paths of the manifest, in the order get_dir_cache lists them
DirInfo == 1..NumEntries
\* link_types = ["hardlink", "symlink"]
UnpackedLinkTypes == {"hardlink", "symlink"}
\* the relative paths the unpacked tree holds a link at
Linked(u) == { x[1] : x \in u.entries }
\* the unpacked tree holds a link for every entry of the manifest
Unpacked(u) == u.dir = "present" /\ Linked(u) = DirInfo

\* what a change of the unpacked tree does to its state entry: the entry
\* was taken for the tree as it was and is valid for no other
Invalidated(state) == IF state = "valid" THEN "stale" ELSE state

\* self.exists(path_info)
UnpackedExists(u) == u.dir = "present"

\* self.state.get(path_info): the checksum of a valid entry, None otherwise
StateGet(u) == u.state = "valid"

\* _path_info_changed with the state index left out
PathInfoChangedByExists(u) == ~UnpackedExists(u)

\* _path_info_changed: the path is missing or has no valid state entry
_path_info_changed(u) == ~(UnpackedExists(u) /\ StateGet(u))

\* self.remove(unpacked_dir_info)
RemoveUnpacked(u) ==
    [u EXCEPT !.dir = "absent", !.entries = {}, !.state = Invalidated(u.state)]

\* _update_unpacked_dir, lines 485-490: return when nothing changed, else
\* remove what is there before the tree is built again
_update_unpacked_dir ==
    /\ unpacked.pc = "idle"
    /\ IF ~_path_info_changed(unpacked)
         THEN unpacked' = [unpacked EXCEPT !.last = "kept"]
         ELSE unpacked' =
                [RemoveUnpacked(unpacked) EXCEPT !.pc = "get_dir_cache",
                                                 !.last = "none"]
    /\ UNCHANGED <<enginevars, linkvars, cmd, repo, log>>

\* dir_info = self.get_dir_cache(checksum): the manifest, or DvcException
get_dir_cache ==
    /\ unpacked.pc = "get_dir_cache"
    /\ \E raised \in BOOLEAN :
        unpacked' =
          [unpacked EXCEPT !.pc = IF raised THEN "except" ELSE "makedirs"]
    /\ UNCHANGED <<enginevars, linkvars, cmd, repo, log>>

\* self.makedirs(unpacked_dir_info); an OSError is not a DvcException
create_makedirs ==
    /\ unpacked.pc = "makedirs"
    /\ \/ unpacked' = [unpacked EXCEPT !.dir = "present", !.pc = "link"]
       \/ unpacked' = [unpacked EXCEPT !.pc = "idle", !.last = "raised"]
    /\ UNCHANGED <<enginevars, linkvars, cmd, repo, log>>

\* the next entry of the manifest to link
NextEntry(u) == CHOOSE e \in DirInfo \ Linked(u) :
                  \A o \in DirInfo \ Linked(u) : e <= o

\* self._link(entry_cache_info, unpacked_dir_info / relative_path,
\* ["hardlink", "symlink"]): the entry is linked, or no link type works
create_link ==
    /\ unpacked.pc = "link"
    /\ Linked(unpacked) # DirInfo
    /\ \/ \E link_type \in UnpackedLinkTypes :
            unpacked' =
              [unpacked EXCEPT
                 !.entries = @ \cup {<<NextEntry(unpacked), link_type>>}]
       \/ unpacked' = [unpacked EXCEPT !.pc = "except"]
    /\ UNCHANGED <<enginevars, linkvars, cmd, repo, log>>

\* self.state.save(unpacked_dir_info, checksum), after the last entry
create_save ==
    /\ unpacked.pc = "link"
    /\ Linked(unpacked) = DirInfo
    /\ unpacked' =
         [unpacked EXCEPT !.state = "valid", !.pc = "idle", !.last = "rebuilt"]
    /\ UNCHANGED <<enginevars, linkvars, cmd, repo, log>>

\* the handler of DvcException that leaves what was built in place
UpdateExceptKeepsTree ==
    /\ unpacked.pc = "except"
    /\ unpacked' = [unpacked EXCEPT !.pc = "idle", !.last = "failed"]
    /\ UNCHANGED <<enginevars, linkvars, cmd, repo, log>>

\* except DvcException: the warning, self.remove(unpacked_dir_info), return
update_except ==
    /\ unpacked.pc = "except"
    /\ unpacked' =
         [RemoveUnpacked(unpacked) EXCEPT !.pc = "idle", !.last = "failed"]
    /\ UNCHANGED <<enginevars, linkvars, cmd, repo, log>>

\* between two updates the user removes the unpacked tree or one file of
\* it, or the state database is lost
unpacked_changes ==
    /\ unpacked.pc = "idle"
    /\ \/ /\ UnpackedExists(unpacked)
          /\ unpacked' = [RemoveUnpacked(unpacked) EXCEPT !.last = "none"]
       \/ \E x \in unpacked.entries :
            unpacked' = [unpacked EXCEPT !.entries = @ \ {x},
                                          !.state = Invalidated(@),
                                          !.last = "none"]
       \/ /\ unpacked.state # "none"
          /\ unpacked' = [unpacked EXCEPT !.state = "none", !.last = "none"]
    /\ UNCHANGED <<enginevars, linkvars, cmd, repo, log>>

UnpackedNext ==
    \/ _update_unpacked_dir
    \/ get_dir_cache
    \/ create_makedirs
    \/ create_link
    \/ create_save
    \/ update_except
    \/ unpacked_changes

UnpackedInit == EngineIdle /\ LinkIdle

SpecUnpacked == UnpackedInit /\ [][UnpackedNext]_vars

\* -------------------------------------------------------------- dvc.logger
\* number of calls of the logger in one process
MaxRecords == 3

\* the levels of the logging module
DEBUG == 10
INFO == 20
WARNING == 30
ERROR == 40
CRITICAL == 50
LevelNos == {DEBUG, INFO, WARNING, ERROR, CRITICAL}

\* ExcludeErrorsFilter that lets WARNING pass
ExcludeAboveWarning(levelno) == levelno <= WARNING

\* ExcludeErrorsFilter.filter
ExcludeErrorsFilter(levelno) == levelno < WARNING

\* ExcludeInfoFilter.filter
ExcludeInfoFilter(levelno) == levelno < INFO

\* "handlers" of the logger 'dvc', in the order of the list
Handlers == <<"console_info", "console_debug", "console_errors">>

\* "level" of a handler
HandlerLevel(h) ==
    CASE h = "console_info" -> INFO
      [] h = "console_debug" -> DEBUG
      [] h = "console_errors" -> WARNING

\* "stream" of a handler
HandlerStream(h) == IF h = "console_errors" THEN "stderr" ELSE "stdout"

\* "filters" of a handler, applied to a record
HandlerFilters(h, levelno) ==
    CASE h = "console_info" -> ExcludeErrorsFilter(levelno)
      [] h = "console_debug" -> ExcludeInfoFilter(levelno)
      [] h = "console_errors" -> TRUE

\* setup(level): dictConfig installs the filters, the three handlers and the
\* level of the logger 'dvc'
setup(level) ==
    /\ log.pc = "unset"
    /\ log' = [log EXCEPT !.pc = "idle", !.level = level]
    /\ UNCHANGED <<enginevars, linkvars, cmd, repo, unpacked>>

\* logger.log(levelno, msg): a record is made and handed to the handlers
\* when the logger is enabled for the level
logger_log(levelno) ==
    /\ log.pc = "idle"
    /\ Len(log.records) < MaxRecords
    /\ log' = [log EXCEPT !.records = Append(@, levelno),
                          !.pc = IF levelno >= log.level THEN "handle"
                                 ELSE "idle",
                          !.at = IF levelno >= log.level THEN 1 ELSE 0]
    /\ UNCHANGED <<enginevars, linkvars, cmd, repo, unpacked>>

\* Logger.callHandlers: the next handler takes the record when the record is
\* at or above the handler's level and passes its filters; LoggerHandler.emit
\* writes it to the handler's stream
callHandlers ==
    /\ log.pc = "handle"
    /\ LET h == Handlers[log.at]
           n == Len(log.records)
           levelno == log.records[n]
           line == [handler |-> h, record |-> n]
           emits == levelno >= HandlerLevel(h) /\ HandlerFilters(h, levelno)
       IN log' =
            [log EXCEPT
               !.stdout = IF emits /\ HandlerStream(h) = "stdout"
                          THEN Append(@, line) ELSE @,
               !.stderr = IF emits /\ HandlerStream(h) = "stderr"
                          THEN Append(@, line) ELSE @,
               !.at = IF log.at = Len(Handlers) THEN 0 ELSE log.at + 1,
               !.pc = IF log.at = Len(Handlers) THEN "idle" ELSE "handle"]
    /\ UNCHANGED <<enginevars, linkvars, cmd, repo, unpacked>>

LoggerNext ==
    \/ \E level \in LevelNos : setup(level)
    \/ \E levelno \in LevelNos : logger_log(levelno)
    \/ callHandlers

SpecLogger == UnpackedInit /\ [][LoggerNext]_vars

\* ------------------------------------------------------------------- claims
\* push or pull was called
Called == pc # "idle"
Ended == pc \in {"returned", "raised"}

\* N, L and R at the call: the named checksums, and the checksums whose
\* object the local and the remote cache held
Named == DOMAIN call.named_cache
L0 == { c \in Checksums : files0["local"][<<c, 0>>] = FileOf(Content(c)) }
R0 == { c \in Checksums : files0["remote"][<<c, 0>>] = FileOf(Content(c)) }

\* the table of section 4.7
TableStatus(c) ==
    IF c \in L0
    THEN (IF c \in R0 THEN "OK" ELSE "NEW")
    ELSE (IF c \in R0 THEN "DELETED" ELSE "MISSING")

\* the status the batch transfers, and the checksums that carry it
Wanted == IF call.download THEN "DELETED" ELSE "NEW"
WantedSet == { c \in DOMAIN status_info : status_info[c].status = Wanted }

\* the checksums whose triple was handed to upload / download
Attempted == { DestPath(i)[1] : i \in { j \in Plan : xfer[j].calls > 0 } }

\* the transfers that returned 1 and those that returned 0
Failed == { i \in Plan : xfer[i].pc = "done" /\ xfer[i].res = 1 }
Succeeded == { i \in Plan : xfer[i].pc = "done" /\ xfer[i].res = 0 }

\* something was written at the cache path of c or at a temporary name of it
Touched(side, c) ==
    \/ files[side][<<c, 0>>] # files0[side][<<c, 0>>]
    \/ \E u \in Uuids : files[side][<<c, u>>].exists

\* the cache path of c holds what it held at the call or the whole object
IntactOrComplete(side, c) ==
    \/ files[side][<<c, 0>>] = files0[side][<<c, 0>>]
    \/ Complete(files[side][<<c, 0>>], c)

\* C1 as stated: whatever N, L and R are, status() gives every named
\* checksum the status of the table for (c in L, c in R).
C1_TableForEveryNLR ==
    Called => \A c \in Named : status_info[c].status = TableStatus(c)

\* C1 amended: status() gives every named checksum the status of the table
\* for (c in L, c in R) whenever it asks the remote (an upload, or a named
\* checksum absent locally); for a download with every named checksum
\* present locally it takes R = L and every status is OK, whatever R is.
C1_TableUnlessLocalDownload ==
    Called =>
        \A c \in Named :
            status_info[c].status =
                IF call.download /\ Named \subseteq L0 THEN "OK"
                ELSE TableStatus(c)

C1_Witness ==
    /\ Called
    /\ \E a, b, c \in Named :
        /\ a \in L0 \ R0 /\ status_info[a].status = "NEW"
        /\ b \in L0 \cap R0 /\ status_info[b].status = "OK"
        /\ c \in R0 \ L0 /\ status_info[c].status = "DELETED"

\* C2: the result of status() has exactly the keys of the named cache (no
\* record for a checksum that is only present in a cache), and every record
\* carries a name and a status.
C2_OneRecordPerNamed ==
    Called =>
        /\ DOMAIN status_info = Named
        /\ \A c \in DOMAIN status_info :
            /\ DOMAIN status_info[c] = {"name", "status"}
            /\ status_info[c].name # <<>>
            /\ status_info[c].status \in {"OK", "MISSING", "NEW", "DELETED"}

C2_Witness ==
    /\ Called
    /\ Named # {}
    /\ \E c \in (L0 \cup R0) \ Named : c \notin DOMAIN status_info
    /\ \E c \in Named \ (L0 \cup R0) : c \in DOMAIN status_info

\* C3: push hands to upload exactly the named checksums of status NEW, from
\* the local to the remote cache path, and pull hands to download exactly
\* those of status DELETED, from the remote to the local cache path; nothing
\* is written for any other checksum on either side.
C3_TransfersExactlyWanted ==
    Called =>
        /\ Attempted \subseteq WantedSet
        /\ Ended => Attempted = WantedSet
        /\ \A i \in Plan :
            /\ plans[i].from_info.fs = IF call.download THEN "remote" ELSE "local"
            /\ plans[i].to_info.fs = IF call.download THEN "local" ELSE "remote"
            /\ plans[i].from_info.path = plans[i].to_info.path
            /\ plans[i].to_info.path[2] = 0
        /\ \A c \in Checksums \ WantedSet, s \in Sides : ~Touched(s, c)

C3_Witness ==
    /\ Ended
    /\ Attempted # {}
    /\ \E c \in Named : status_info[c].status = "OK"
    /\ \E c \in Named : status_info[c].status = "MISSING"

\* C4: the batch ends with an error exactly when a transfer returned 1; the
\* error is UploadError for push and DownloadError for pull and carries the
\* number of transfers that returned 1.
C4_ErrorIffFailure ==
    /\ pc = "raised" =>
        /\ Failed # {}
        /\ err.n = Cardinality(Failed)
        /\ err.kind = IF call.download THEN "DownloadError" ELSE "UploadError"
    /\ pc = "returned" => Failed = {} /\ err = NoError
    /\ ~Ended => err = NoError

C4_Witness ==
    /\ pc = "raised"
    /\ err = [kind |-> "DownloadError", n |-> 2]
    /\ Cardinality(Succeeded) = 1

\* C5 as stated: every batch, also one with failed transfers, returns the
\* size of the plan.
C5_ReturnsAttemptedAlways ==
    Ended => ret = Len(plans)

\* C5 amended: a batch without a failed transfer returns the size of the
\* plan, every triple of it attempted; a batch with a failed transfer raises
\* and returns no value.
C5_ReturnsAttemptedUnlessFailed ==
    /\ pc = "returned" => ret = Len(plans) /\ ret = Cardinality(Attempted)
    /\ pc = "raised" => ret = None /\ Len(plans) = Cardinality(Attempted)
    /\ ~Ended => ret = None

C5_Witness ==
    /\ pc = "returned"
    /\ ret = 3
    /\ Cardinality(Succeeded) = 3

\* C6: every triple of the plan is handed to upload / download once and only
\* once, and a transfer that returned 1 neither keeps a queued triple from
\* being started nor ends the batch before every transfer has returned.
C6_EachTripleOnce ==
    /\ \A i \in Plan :
        /\ xfer[i].calls <= 1
        /\ xfer[i].pc # "queued" => xfer[i].calls = 1
    /\ Ended => \A i \in Plan : xfer[i].calls = 1 /\ xfer[i].pc = "done"
    /\ (/\ pc = "running"
        /\ \E i \in Plan : xfer[i].pc = "queued"
        /\ Cardinality(InFlight) < Workers)
       => ENABLED (\E i \in Plan : transfer_start(i))

C6_Witness ==
    /\ pc = "raised"
    /\ call.jobs = 1
    /\ Len(plans) = 3
    /\ xfer[1].res = 1 /\ xfer[2].res = 0 /\ xfer[3].res = 1
    /\ \A i \in Plan : xfer[i].calls = 1

\* C7: when push ends with UploadError, the object of every upload that
\* returned 0 is complete at its remote cache path and the remote cache path
\* of every upload that returned 1 holds no file.
C7_PushErrorKeepsSuccesses ==
    (pc = "raised" /\ ~call.download) =>
        /\ \A i \in Succeeded :
            Complete(files["remote"][DestPath(i)], DestPath(i)[1])
        /\ \A i \in Failed : ~files["remote"][DestPath(i)].exists

C7_Witness ==
    /\ pc = "raised" /\ ~call.download
    /\ err.n = 1
    /\ Cardinality(Succeeded) = 2
    /\ \E i \in Failed : files["remote"][upload_tmp_file(i)].exists

\* C8: at every step of an upload the remote cache path of every checksum
\* holds what it held before or the complete object, and an upload that
\* returned 1 left its destination as it was.
C8_UploadAtomic ==
    (Called /\ ~call.download) =>
        /\ \A c \in Checksums : IntactOrComplete("remote", c)
        /\ \A i \in Failed :
            files["remote"][DestPath(i)] = files0["remote"][DestPath(i)]

C8_Witness ==
    /\ Called /\ ~call.download
    /\ \E i \in Failed :
        /\ files["remote"][upload_tmp_file(i)].exists
        /\ Len(files["remote"][upload_tmp_file(i)].data) = 1
        /\ ~files["remote"][DestPath(i)].exists

\* C9: at every step of a download the local cache path of every checksum
\* holds what it held before or the complete object, and a download that
\* returned 1 left its destination as it was.
C9_DownloadAtomic ==
    (Called /\ call.download) =>
        /\ \A c \in Checksums : IntactOrComplete("local", c)
        /\ \A i \in Failed :
            files["local"][DestPath(i)] = files0["local"][DestPath(i)]

C9_Witness ==
    /\ Called /\ call.download
    /\ \E i \in Failed :
        /\ files["local"][download_tmp_file(i)].exists
        /\ Len(files["local"][download_tmp_file(i)].data) = 1
        /\ ~files["local"][DestPath(i)].exists
    /\ \E i \in Succeeded : Complete(files["local"][DestPath(i)], DestPath(i)[1])

\* C10: while two creators upload the same checksum to the same remote path,
\* the path holds what it held before or the complete object in every
\* interleaving, and once both have returned and one of them returned 0 it
\* holds the complete object.
C10_ConcurrentCreators ==
    /\ \A c \in Checksums : IntactOrComplete("remote", c)
    /\ ((\A i \in Plan : xfer[i].pc = "done") /\ Succeeded # {})
        => \A i \in Plan :
            Complete(files["remote"][DestPath(i)], DestPath(i)[1])

C10_Witness ==
    /\ Len(plans) = 2 /\ plans[1] = plans[2]
    /\ ~files0["remote"][DestPath(1)].exists
    /\ xfer[1].pc = "done" /\ xfer[1].res = 0
    /\ xfer[2].pc = "write" /\ xfer[2].off = 1
    /\ Len(files["remote"][upload_tmp_file(2)].data) = 1
    /\ Complete(files["remote"][DestPath(1)], DestPath(1)[1])

\* the checksums of the triples of the plan
PlanChecksums == { plans[i].to_info.path[1] : i \in Plan }

\* C11 as stated: the number of transfers in flight never exceeds jobs, the
\* caller's value or remote.JOBS.
C11_InFlightAtMostJobs ==
    Called => Cardinality(InFlight) <= call.jobs

\* C11 amended: jobs is the caller's value or remote.JOBS; with jobs > 1 at
\* most jobs transfers are in flight, and with jobs <= 1 (0 included) the
\* transfers run one at a time, so at most one is in flight.
C11_InFlightAtMostPool ==
    Called =>
        /\ call.jobs \in 0..MaxJobs
        /\ Cardinality(InFlight) <= (IF call.jobs > 1 THEN call.jobs ELSE 1)

C11_Witness ==
    /\ pc = "running"
    /\ call.jobs = 2
    /\ Cardinality(InFlight) = 2
    /\ \E i \in Plan : xfer[i].pc = "queued"

\* C12: every cache path that holds a file, local or remote, holds content
\* whose digest is the checksum of the path; the source, the destination and
\* the name of every triple of a plan belong to one checksum, and a finished
\* transfer left at the destination path of c what the source path of c held.
C12_PathsHoldTheirChecksum ==
    /\ \A s \in Sides, c \in Checksums :
        files[s][<<c, 0>>].exists => file_md5(files[s][<<c, 0>>].data) = c
    /\ \A i \in Plan :
        LET c == plans[i].from_info.path[1]
        IN /\ plans[i].to_info.path[1] = c
           /\ c \in DOMAIN status_info
           /\ plans[i].name = status_info[c].name
    /\ \A i \in Succeeded :
        files[DestSide(i)][DestPath(i)] =
            files0[plans[i].from_info.fs][plans[i].from_info.path]

C12_Witness ==
    /\ Ended
    /\ call.download
    /\ Cardinality(Succeeded) = 2
    /\ Cardinality(Failed) = 1

\* C13 as stated: a named checksum absent from the local cache and from the
\* remote has status NEW and push uploads it.
C13_AbsentBothIsNew ==
    Called =>
        \A c \in Named \ (L0 \cup R0) :
            /\ status_info[c].status = "NEW"
            /\ ~call.download => c \in PlanChecksums

\* C13 amended: a named checksum absent from the local cache and from the
\* remote has status MISSING and is in no plan; the upload candidates are
\* the named checksums present locally and absent from the remote, of
\* status NEW.
C13_AbsentBothIsMissing ==
    Called =>
        /\ \A c \in Named \ (L0 \cup R0) :
            /\ status_info[c].status = "MISSING"
            /\ c \notin PlanChecksums
        /\ ~call.download =>
            \A c \in Named \cap (L0 \ R0) :
                /\ status_info[c].status = "NEW"
                /\ c \in PlanChecksums

C13_Witness ==
    /\ Called /\ ~call.download
    /\ \E c \in Named \ (L0 \cup R0) : status_info[c].status = "MISSING"
    /\ \E c \in Named \cap (L0 \ R0) : c \in PlanChecksums

\* C14: status() logs the warning exactly when a named checksum has status
\* MISSING; the warning lists every MISSING checksum with its name, once, and
\* no other; and status() still returns the record of every named checksum.
C14_MissingWarning ==
    LET missing == { c \in DOMAIN status_info : status_info[c].status = "MISSING" }
        listed == { warning[i].md5 : i \in 1..Len(warning) }
    IN /\ ~Called => warning = <<>>
       /\ Called =>
            /\ (warning # <<>>) <=> (missing # {})
            /\ listed = missing
            /\ Len(warning) = Cardinality(missing)
            /\ \A i \in 1..Len(warning) :
                warning[i].name = status_info[warning[i].md5].name
            /\ DOMAIN status_info = Named

C14_Witness ==
    /\ Called
    /\ Len(warning) = 2
    /\ \E c \in Named : status_info[c].status = "NEW"

\* ---- the materializer
\* the destination d shows nothing or the whole cache object
DestWhole(t, n, d) ==
    \/ t[WtPath(d)] = NoEntry
    \/ ReadFile(t, n, WtPath(d)) = ReadFile(t, n, CachePath)

\* the step makes the destination d appear
Appears(d) == tree[WtPath(d)] = NoEntry /\ tree'[WtPath(d)] # NoEntry

\* the step renames the temporary file of the running operation to d
RenamedIn(d) ==
    /\ op.tmp[1] = "tmp"
    /\ tree[op.tmp] # NoEntry
    /\ tree'[WtPath(d)] = tree[op.tmp]
    /\ tree'[op.tmp] = NoEntry

\* the destination of a strategy stays absent until the strategy returns
AbsentUntilReturned ==
    op'.name \in Strategies /\ op'.result # "returned" => tree'[op'.to] = NoEntry

\* C15 (as stated): with every one of the four strategies the destination
\* appears by the rename of a temporary file, it never shows a partial file,
\* and a failure leaves it as it was
C15_AllFourRenameIn ==
    [][/\ \A d \in Dests :
            /\ Appears(d) /\ op'.name \in Strategies => RenamedIn(d)
            /\ DestWhole(tree', inodes', d)
       /\ AbsentUntilReturned]_vars

\* C15: copy and reflink make the destination appear by the rename of a
\* temporary file, symlink and hardlink by one system call on the destination
\* itself; with all four the destination never shows a partial file, and it
\* stays absent, as it was, unless the strategy returns
C15_DestinationNeverPartial ==
    [][/\ \A d \in Dests :
            /\ Appears(d) /\ op'.name \in {"copy", "reflink"} => RenamedIn(d)
            /\ Appears(d) /\ op'.name \in {"symlink", "hardlink"} =>
                    op.pc = "idle" /\ op'.pc = "idle" /\ tree'[op'.tmp] = tree'[op'.to]
                    /\ next_uuid' = next_uuid
            /\ DestWhole(tree', inodes', d)
       /\ AbsentUntilReturned]_vars

\* a symlink or hardlink is in place, and a copy of a non-empty object to the
\* other destination failed after its temporary file was created
C15_Witness ==
    \E d1, d2 \in Dests :
        /\ linked[d1] \in {"symlink", "hardlink"}
        /\ op.name = "copy" /\ op.result = "raised" /\ op.to = WtPath(d2)
        /\ tree[WtPath(d2)] = NoEntry
        /\ next_uuid > 1
        /\ inodes[tree[CachePath].ino].data # <<>>

\* C16: hardlink of an empty cache object makes a file with an inode of its
\* own at every destination, distinct from each other, and the link count of
\* the cache object stays 1; hardlink of a non-empty object makes another
\* name of the object's inode
C16_EmptyHardlinkIsFreshFile ==
    LET src == tree[CachePath].ino
    IN /\ inodes[src].data = <<>> => Nlink(tree, src) = 1
       /\ \A d \in Dests : linked[d] = "hardlink" =>
            IF inodes[src].data = <<>>
            THEN /\ tree[WtPath(d)].kind = "file"
                 /\ tree[WtPath(d)].ino # src
                 /\ inodes[tree[WtPath(d)].ino].live
                 /\ inodes[tree[WtPath(d)].ino].data = <<>>
                 /\ \A e \in Dests \ {d} : linked[e] = "hardlink" =>
                        tree[WtPath(e)].ino # tree[WtPath(d)].ino
            ELSE tree[WtPath(d)] = FileEntry(src)

\* an empty object was materialized by hardlink at two destinations
C16_Witness ==
    /\ inodes[tree[CachePath].ino].data = <<>>
    /\ \A d \in Dests : linked[d] = "hardlink"
    /\ Cardinality(Dests) >= 2

\* C17: when a file placed by reflink or copy appears at its destination it
\* has the per-file mode of the policy, 0o644 or 0o664 for "group", and not
\* 0o444; the mode of the cache object is 0o444 after every step
C17_LinkedFileMode ==
    [][/\ \A d \in Dests :
            Appears(d) /\ linked'[d] \in {"copy", "reflink"} =>
                LET mode == inodes'[tree'[WtPath(d)].ino].mode
                IN /\ mode = _file_mode(shared)
                   /\ mode = IF shared = "group" THEN 436 ELSE 420
                   /\ mode # CACHE_MODE
       /\ inodes'[tree'[CachePath].ino].mode = CACHE_MODE
       /\ CACHE_MODE = 292]_vars

\* under the "group" policy a reflink whose clone was made with the mode of
\* the cache object is in place with mode 0o664
C17_Witness ==
    \E d \in Dests :
        /\ linked[d] = "reflink"
        /\ shared = "group"
        /\ op.name = "reflink" /\ op.result = "returned" /\ op.to = WtPath(d)
        /\ inodes[tree[WtPath(d)].ino].mode = 436
        /\ inodes[tree[CachePath].ino].mode = 292

\* the step is a call of protect
ProtectStep == op.pc = "idle" /\ op'.pc = "idle" /\ op'.name = "protect"

\* C18: protect(p) never changes a tree entry or the bytes of a file; when
\* chmod succeeds the mode of p is 0o444 and protect returns; on EROFS it
\* returns and nothing changes; on EPERM or EACCES nothing changes and it
\* returns if and only if the mode of p is already 0o444, and raises
\* otherwise; on any other error it raises
C18_ProtectErrors ==
    [][ProtectStep =>
        LET i == Resolve(tree, op'.to).ino
            e == op'.errno
        IN /\ tree' = tree
           /\ \A j \in Inos : /\ inodes'[j].data = inodes[j].data
                              /\ inodes'[j].live = inodes[j].live
                              /\ j # i => inodes'[j] = inodes[j]
           /\ op'.result \in {"returned", "raised"}
           /\ e = "ok" => inodes'[i].mode = 292 /\ op'.result = "returned"
           /\ e = "EROFS" => inodes' = inodes /\ op'.result = "returned"
           /\ e \in {"EPERM", "EACCES"} =>
                /\ inodes' = inodes
                /\ op'.result = "returned" <=> inodes[i].mode = 292
           /\ e \notin {"ok", "EROFS", "EPERM", "EACCES"} =>
                inodes' = inodes /\ op'.result = "raised"]_vars

\* protect of a copy that is already 0o444 was refused with EACCES and returned
C18_Witness ==
    \E d \in Dests :
        /\ op.name = "protect" /\ op.to = WtPath(d)
        /\ op.errno = "EACCES" /\ op.result = "returned"
        /\ linked[d] = "copy"
        /\ inodes[tree[WtPath(d)].ino].mode = 292

\* unprotect is copying, removing or renaming for a symlink or a hardlink
UnprotectReplacing ==
    Running("unprotect") /\ op.tmp # op.to /\ op.pc \in {"write", "remove", "rename"}

\* C19 (as stated): while unprotect(p) of a symlink or a hardlink runs, a
\* reader that opens p gets the whole file that was there when unprotect
\* began, or the whole new file, which has the same bytes
C19_ReaderSeesOldOrNew ==
    UnprotectReplacing =>
        ReadFile(tree, inodes, op.to) = ReadFile(snap.tree, snap.inodes, op.to)

\* C20: when unprotect(p) has returned, p is a regular file with an inode
\* that no other name has, with the bytes it had before and the per-file mode
\* of the policy; the cache object and every other working-tree path are as
\* they were, and the cache object has mode 0o444
C20_UnprotectFrame ==
    op.name = "unprotect" /\ op.pc = "idle" /\ op.result = "returned" =>
        LET p == op.to
            src == tree[CachePath].ino
        IN /\ tree[p].kind = "file"
           /\ tree[p].ino # src
           /\ Nlink(tree, tree[p].ino) = 1
           /\ ReadFile(tree, inodes, p) = ReadFile(snap.tree, snap.inodes, p)
           /\ inodes[tree[p].ino].mode = _file_mode(shared)
           /\ \A q \in ({CachePath} \cup { WtPath(d) : d \in Dests }) \ {p} :
                /\ tree[q] = snap.tree[q]
                /\ PathExists(tree, q) =>
                    inodes[Resolve(tree, q).ino] = snap.inodes[Resolve(tree, q).ino]
           /\ inodes[src].mode = 292

\* unprotect of a hardlink of a non-empty object returned while the other
\* destination is still a hardlink of the object
C20_Witness ==
    \E d1, d2 \in Dests :
        /\ d1 # d2
        /\ op.name = "unprotect" /\ op.pc = "idle" /\ op.result = "returned"
        /\ op.to = WtPath(d1)
        /\ snap.tree[WtPath(d1)] = FileEntry(tree[CachePath].ino)
        /\ tree[WtPath(d2)] = FileEntry(tree[CachePath].ino)
        /\ inodes[tree[CachePath].ino].data # <<>>

\* C21: while unprotect of a directory runs, every working-tree path outside
\* the directory and the cache object stay as they are; when it returns,
\* every file the directory held is a regular file with an inode of its own,
\* the bytes of the object it was linked from and the per-file mode.
C21_UnprotectDir ==
    [][/\ walk.active =>
            /\ inodes'[tree'[CachePath].ino] = inodes[tree[CachePath].ino]
            /\ tree'[CachePath] = tree[CachePath]
            /\ \A d \in Dests \ walk.dir :
                /\ tree'[WtPath(d)] = tree[WtPath(d)]
                /\ ReadFile(tree', inodes', WtPath(d)) = ReadFile(tree, inodes, WtPath(d))
                /\ PathExists(tree, WtPath(d)) =>
                    inodes'[Resolve(tree, WtPath(d)).ino].mode =
                        inodes[Resolve(tree, WtPath(d)).ino].mode
       /\ walk.active /\ ~walk'.active /\ walk'.result = "returned" =>
            \A d \in walk.files :
                /\ tree'[WtPath(d)].kind = "file"
                /\ tree'[WtPath(d)].ino # tree'[CachePath].ino
                /\ Nlink(tree', tree'[WtPath(d)].ino) = 1
                /\ ReadFile(tree', inodes', WtPath(d)) = ReadFile(tree', inodes', CachePath)
                /\ inodes'[tree'[WtPath(d)].ino].mode = _file_mode(shared)]_vars

\* unprotect of a directory returned after it replaced two links of a
\* non-empty object by copies
C21_Witness ==
    /\ ~walk.active /\ walk.result = "returned"
    /\ Cardinality({ d \in walk.files : linked[d] = "unprotect" }) >= 2
    /\ inodes[tree[CachePath].ino].data # <<>>

\* C22: protect of a path, unprotect of it and protect of it again, each
\* returning and no chmod of protect refused by a read-only file system,
\* leave the path with the mode 0o444 and the content it had after the
\* first protect.
C22_ProtectUnprotectProtect ==
    [][/\ op.name = "unprotect" /\ op.pc = "idle" /\ op.result = "returned"
       /\ snap.protected
       /\ op'.name = "protect" /\ op'.to = op.to
       /\ op'.result = "returned" /\ op'.errno # "EROFS"
       => /\ ModeAt(snap.tree, snap.inodes, op.to) = CACHE_MODE
          /\ ModeAt(tree', inodes', op.to) = CACHE_MODE
          /\ ReadFile(tree', inodes', op.to) =
                ReadFile(snap.tree, snap.inodes, op.to)]_vars

\* the second protect has returned on a path whose link to a non-empty
\* object the unprotect between the two replaced by a copy
C22_Witness ==
    /\ op.name = "protect" /\ op.pc = "idle" /\ op.result = "returned"
    /\ op.errno = "ok"
    /\ op.to[1] = "wt"
    /\ linked[op.to[2]] = "unprotect"
    /\ ReadFile(tree, inodes, op.to) # FileOf(<<>>)
    /\ ModeAt(tree, inodes, op.to) = CACHE_MODE

\* ---- corrupt local cache objects
\* the named checksums whose local cache file existed at the call and was
\* not the object of its checksum
CorruptNamed ==
    { c \in Named : /\ files0["local"][<<c, 0>>].exists
                    /\ ~Complete(files0["local"][<<c, 0>>], c) }

C24_ExitCode ==
    /\ cmd.calls <= 1
    /\ cmd.pc \in {"called", "exited"} =>
        /\ cmd.calls = 1
        /\ Called
        /\ Named = cmd.targets
        /\ call.jobs = cmd.jobs
        /\ call.download = (cmd.name # "push")
    /\ cmd.pc = "exited" =>
        /\ cmd.code = 0 <=> pc = "returned"
        /\ cmd.code # 0 <=> Failed # {}

\* one command exited after a batch in which a transfer failed and another
\* one did not
C24_Witness ==
    /\ cmd.pc = "exited" /\ cmd.code = 1
    /\ Failed # {} /\ Succeeded # {}
    /\ cmd.jobs = MaxJobs

\* ---- run and the stage graph
\* the stages left when the stages without a parent among them are taken
\* away again and again
RECURSIVE Peel(_)
Peel(S) ==
    LET roots == { st \in S : Parents(S, st) = {} }
    IN IF roots = {} THEN S ELSE Peel(S \ roots)

Acyclic(stages) == Peel(stages) = {}

CycleErrors == {"CircularDependencyError", "CyclicGraphError"}

\* C25: after every run the stage graph is acyclic, and a run rejected for a
\* cycle (CircularDependencyError for a path that is dependency and output,
\* CyclicGraphError for a cycle through recorded stages) adds no stage.
C25_StageGraphAcyclic ==
    [][/\ Acyclic(repo'.stages)
       /\ repo'.last.error \in CycleErrors => repo'.stages = repo.stages]_vars

\* a run was rejected for a cycle through the two recorded stages, the
\* second of which depends on the first
C25_Witness ==
    /\ repo.last.error = "CyclicGraphError"
    /\ Cardinality(repo.stages) = 2
    /\ \E st \in repo.stages : Parents(repo.stages, st) # {}

\* C26: a run of a recorded stage one of whose outputs was overwritten with
\* other bytes, under cache.type copy or hardlink (where the cache object is
\* overwritten with it), executes the command once and checks nothing out.
C26_DriftRunsCommand ==
    [][(/\ repo'.last.kind = "rerun"
        /\ \E p \in repo'.last.outs : repo.ws[p] = "bad")
       => /\ repo'.last.ran = 1
          /\ ~repo'.last.checkout]_vars

\* under cache.type hardlink a recorded stage ran its command again: its
\* output, and with it the cache object, had been overwritten
C26_Witness ==
    /\ repo.cache_type = "hardlink"
    /\ repo.last.kind = "rerun"
    /\ repo.last.ran = 1
    /\ \A p \in repo.last.outs : repo.ws[p] = "good" /\ repo.cache[p] = "good"

\* C27: a run that ends with an error of its arguments has not executed the
\* command, has created or changed no file of the workspace or of the cache,
\* and has recorded no stage.
C27_ErrorBeforeCommand ==
    [][(repo'.last.kind = "run" /\ repo'.last.error # "none")
       => /\ repo'.last.ran = 0
          /\ repo'.ws = repo.ws
          /\ repo'.cache = repo.cache
          /\ repo'.stages = repo.stages]_vars

\* a run was refused for an output inside the directory another stage
\* produces, and the two files no stage produced still do not exist
C27_Witness ==
    /\ repo.last.error = "OverlappingOutputPathsError"
    /\ repo.last.ran = 0
    /\ Cardinality({ p \in 1..NumFiles : repo.ws[p] = "none" }) >= 2

\* ---- the end of a batch
\* C28: when push or pull has returned or raised, every transfer of the
\* plan has completed, none is in flight and none is queued; the error is
\* UploadError or DownloadError with the number of failed transfers.
C28_ErrorAfterAllCompleted ==
    Ended =>
        /\ InFlight = {}
        /\ \A i \in Plan : xfer[i].pc = "done"
        /\ pc = "raised" =>
            /\ err.kind = (IF call.download THEN "DownloadError" ELSE "UploadError")
            /\ err.n = Cardinality(Failed)

\* a batch of the pool raised after its first transfer failed and the
\* transfers after it ran to their end
C28_Witness ==
    /\ pc = "raised"
    /\ call.jobs = MaxJobs
    /\ Len(plans) = NumChecksums
    /\ 1 \in Failed
    /\ Succeeded = Plan \ {1}

\* C29 as stated: once a transfer function has raised, no queued transfer
\* is started, and the error leaves push / pull only when no transfer is in
\* flight.
C29_NoStartAfterFatal ==
    [][/\ (\E j \in Plan : xfer[j].pc = "raised") =>
            \A i \in Plan :
                xfer[i].pc = "queued" => xfer'[i].pc \in {"queued", "cancelled"}
       /\ (pc' = "raised" /\ err'.kind = "fatal") => InFlight' = {}]_vars

\* C30: a download whose named checksums are all in the local cache makes no
\* call of remote.cache_exists, gives every named checksum the status OK
\* and returns 0 with an empty plan and no file touched; every other call
\* of status() asks the remote once, with all the named checksums.
C30_RemoteProbeSkipped ==
    Called =>
        LET md5s == SortedSeq(Named)
            queries == remote_queries(files0["local"], md5s, call.download)
        IN IF call.download /\ Named \subseteq L0
           THEN /\ queries = <<>>
                /\ \A c \in Named : status_info[c].status = "OK"
                /\ plans = <<>>
                /\ pc = "returned" /\ ret = 0
                /\ files = files0
           ELSE /\ Len(queries) = 1
                /\ SeqToSet(queries[1]) = Named
                /\ Len(queries[1]) = Cardinality(Named)

\* a pull named two checksums the local cache holds and the remote lacks,
\* and returned 0
C30_Witness ==
    /\ Called /\ call.download
    /\ Cardinality(Named) >= 2
    /\ Named \subseteq L0
    /\ Named \cap R0 = {}
    /\ pc = "returned" /\ ret = 0

\* ---- the verification of a link
\* C31: a verified hardlink of a non-empty object shares the inode of the
\* object; a hardlink call that left a file with an inode of its own is
\* removed and reported as a failure, after which the next strategy acts at
\* the same path; for an empty object the verification returns without test.
C31_HardlinkVerified ==
    [][/\ (op'.name = "verify" /\ op.name = "hardlink") =>
            LET p == op'.to
            IN /\ p = op.to
               /\ IF getsize(CachePath) = 0
                  THEN /\ op'.result = "returned"
                       /\ tree'[p] = tree[p]
                  ELSE IF tree[p].ino = tree[CachePath].ino
                  THEN /\ op'.result = "returned"
                       /\ tree'[p] = tree[p]
                  ELSE /\ op'.result = "raised"
                       /\ tree'[p] = NoEntry
       /\ VerifyFailed =>
            /\ op'.name = "copy"
            /\ op'.to = op.to]_vars

\* the copy made after a failed verification of a hardlink is in place at
\* the path the unshared file was removed from
C31_Witness ==
    /\ op.name = "copy" /\ op.pc = "idle" /\ op.result = "returned"
    /\ linked[op.to[2]] = "copy"
    /\ tree[op.to].ino # tree[CachePath].ino
    /\ \E d \in Dests : linked[d] = "hardlink" /\ tree[WtPath(d)].ino = tree[CachePath].ino

\* ---- the unpacked directory
\* the unpacked path does not exist or the state index has no valid entry
UnpackedDrift == unpacked.dir = "absent" \/ unpacked.state # "valid"

\* C32: _update_unpacked_dir rebuilds the unpacked tree when and only when
\* the unpacked path is missing or the state index has no valid entry for
\* it; a call without drift changes neither the tree nor the state index,
\* and a rebuild that ends leaves every entry of the manifest linked and
\* the tree recorded.
C32_RebuildIffDrift ==
    [][/\ (unpacked.pc = "idle" /\ unpacked'.last = "kept") =>
            /\ ~UnpackedDrift
            /\ unpacked'.dir = unpacked.dir
            /\ unpacked'.entries = unpacked.entries
            /\ unpacked'.state = unpacked.state
            /\ unpacked'.pc = "idle"
       /\ (unpacked.pc = "idle" /\ unpacked'.pc # "idle") =>
            /\ UnpackedDrift
            /\ unpacked'.dir = "absent"
            /\ unpacked'.entries = {}
       /\ (unpacked.pc # "idle" /\ unpacked'.last = "rebuilt") =>
            /\ Unpacked(unpacked')
            /\ unpacked'.state = "valid"]_vars

\* an update found the complete, recorded tree and kept it
C32_Witness ==
    /\ unpacked.pc = "idle" /\ unpacked.last = "kept"
    /\ Unpacked(unpacked)
    /\ unpacked.state = "valid"
    /\ \E x, y \in unpacked.entries : x[2] # y[2]

\* C33: the state index holds a valid entry for the unpacked directory only
\* while every entry of the manifest is linked in it; an update whose build
\* failed with DvcException returned with the partial tree removed and
\* nothing recorded, so that the next update sees drift.
C33_RecordedOnlyWhenComplete ==
    /\ unpacked.state = "valid" => Unpacked(unpacked)
    /\ unpacked.last = "failed" =>
         /\ unpacked.pc = "idle"
         /\ unpacked.dir = "absent"
         /\ unpacked.entries = {}
         /\ unpacked.state # "valid"
         /\ _path_info_changed(unpacked)

\* the rebuild of a tree that had been recorded failed: the tree is gone and
\* the entry of the earlier build is not valid
C33_Witness ==
    /\ unpacked.pc = "idle" /\ unpacked.last = "failed"
    /\ unpacked.dir = "absent"
    /\ unpacked.state = "stale"

\* ---- a push or pull repeated
\* the status a push or pull of the same arguments would find now
StatusNow ==
    status(files["local"], files["remote"], call.named_cache, FALSE,
           call.download)

\* C34: when a push (pull) has returned without error, every named checksum
\* whose status was NEW (DELETED) at the call is OK, and the same push
\* (pull) repeated at once returns 0 with an empty plan and writes nothing.
C34_RepeatedCallTransfersNothing ==
    /\ (pc = "returned" /\ call.named_cache # <<>>) =>
         \A c \in DOMAIN status_info :
            status_info[c].status \in
                {IF call.download THEN STATUS_DELETED ELSE STATUS_NEW,
                 STATUS_OK}
              => StatusNow[c].status = STATUS_OK
    /\ call.prev # None =>
         /\ pc = "returned"
         /\ ret = 0
         /\ plans = <<>>
         /\ files = files0
         /\ \A c \in DOMAIN status_info :
               status_info[c].status #
                 IF call.download THEN STATUS_DELETED ELSE STATUS_NEW

\* a push that had uploaded two objects was repeated and returned 0
C34_Witness ==
    /\ call.prev # None /\ call.prev >= 2
    /\ ~call.download
    /\ pc = "returned" /\ ret = 0

\* ---- what push and pull leave alone
\* C35: from the call on, the side a push or pull reads from (the local
\* cache for push, the remote for pull) holds at every path what it held at
\* the call, and on both sides every path of a checksum that is not a key of
\* the named cache holds what it held at the call.
C35_SourceAndUnnamedUntouched ==
    pc # "idle" =>
        LET src == IF call.download THEN "remote" ELSE "local"
        IN /\ files[src] = files0[src]
           /\ \A side \in Sides, p \in Paths :
                p[1] \notin DOMAIN call.named_cache
                    => files[side][p] = files0[side][p]

\* a pull of checksum 1 alone downloaded it and returned, and a checksum
\* that only the remote holds and that was not named is still missing in
\* the local cache
C35_Witness ==
    /\ pc = "returned" /\ ret = 1
    /\ call.download
    /\ DOMAIN call.named_cache = {1}
    /\ files["local"][<<1, 0>>] # files0["local"][<<1, 0>>]
    /\ \E c \in Checksums \ {1} :
          /\ files["remote"][<<c, 0>>].exists
          /\ ~files["local"][<<c, 0>>].exists

\* ---- temporary files of a failed call
\* C36: when copy or reflink has raised, the temporary file the call made
\* is gone.
C36_NoTempLeftBehind ==
    (op.pc = "idle" /\ op.result = "raised" /\ op.name \in {"copy", "reflink"})
        => ~PathExists(tree, op.tmp)

\* ---- the console handlers
\* the lines a stream holds for record n
LinesOf(stream, n) ==
    { i \in 1..Len(stream) : stream[i].record = n }

\* the call of the logger for record n has returned
Handled(n) == n < Len(log.records) \/ log.pc = "idle"

\* C37: a record of the logger 'dvc' at or above the level given to setup()
\* is written once, by one handler: a DEBUG record by console_debug to
\* stdout, an INFO record by console_info to stdout, a record of WARNING or
\* above by console_errors to stderr; a record below the level is written
\* nowhere, and no record is ever written twice.
C37_OneHandlerPerRecord ==
    \A n \in 1..Len(log.records) :
        LET levelno == log.records[n]
            out == LinesOf(log.stdout, n)
            errs == LinesOf(log.stderr, n)
        IN /\ Cardinality(out) + Cardinality(errs) <= 1
           /\ Handled(n) =>
                IF levelno < log.level
                THEN out = {} /\ errs = {}
                ELSE /\ Cardinality(out) + Cardinality(errs) = 1
                     /\ levelno = DEBUG =>
                          \E i \in out :
                            log.stdout[i].handler = "console_debug"
                     /\ levelno = INFO =>
                          \E i \in out :
                            log.stdout[i].handler = "console_info"
                     /\ levelno >= WARNING =>
                          \E i \in errs :
                            log.stderr[i].handler = "console_errors"

\* with the level DEBUG a DEBUG, an INFO and a WARNING record were logged:
\* two lines on stdout, one on stderr
C37_Witness ==
    /\ log.pc = "idle" /\ log.level = DEBUG
    /\ log.records = <<DEBUG, INFO, WARNING>>
    /\ Len(log.stdout) = 2 /\ Len(log.stderr) = 1

====
